---- MODULE Spec2Model ----
(***************************************************************************)
(* Model of the UltraRouter (src/framework/router.ts) and of the render    *)
(* pipeline it delegates to (src/framework/render.ts).                     *)
(*                                                                         *)
(* Strings of the program (path patterns, pathnames, segments, parameter   *)
(* names and values) are sequences of one-character strings, so that       *)
(* split("/"), startsWith, endsWith, slice and join are computed.          *)
(* A RouteNode is identified by the sequence of children-Map keys that     *)
(* leads to it from the root; the root is the empty sequence and the       *)
(* parent of a node is its identifier without the last key.                *)
(***************************************************************************)
EXTENDS Integers, Sequences, FiniteSets, TLC

VARIABLES
  tree,        \* node id -> RouteNode (router.ts: root and everything below)
  routeCache,  \* pathname -> [data, timestamp, expires]   (router.ts:20)
  objs,        \* heap of MatchedRoute objects; a reference is an index, 0 is null
  now,         \* Date.now()
  last,        \* the most recent call made from outside and what it returned
  req,         \* the request being rendered by router.render
  renderCache, \* cache of render.ts: cache key -> buffered body
  events,      \* middleware and handler invocations of this request, in order
  unhandled,   \* a promise was rejected with nobody handling it
  layoutsGlobal, \* globalThis._layouts, the layout wrappers
  adds,        \* number of addRoute calls made so far
  lastCacheCleanup, \* router.ts:21, the time of the last sweep of routeCache
  timerDue,    \* the time from which the interval timer of the constructor is due
  unranked,    \* the tree of a second router, which is given the same
               \* registrations with the priority option left out
  batched,     \* action.ts: the closure of one createBatchedAction
  streaming,   \* action.ts: one call of stream() of a createStreamingAction
  limiter,     \* action.ts: rateLimiter, and the calls of check made so far
  action       \* action.ts: one call of execute() of a createAction

vars == <<tree, routeCache, objs, now, last, req, renderCache, events,
          unhandled, layoutsGlobal, adds, lastCacheCleanup, timerDue, unranked,
          batched, streaming, limiter, action>>

\* the state of action.ts
actions == <<batched, streaming, limiter, action>>

\* the state of the router and of render.ts, the clock apart
routing == <<tree, routeCache, objs, last, req, renderCache, events,
             unhandled, layoutsGlobal, adds, lastCacheCleanup, timerDue,
             unranked>>

\* the state of the interval timer and of the sweep it runs
sweeper == <<lastCacheCleanup, timerDue>>

----------------------------------------------------------------------------
(* Bounds *)

MaxAdds == 3      \* addRoute calls in one behaviour
MaxObjs == 2      \* MatchedRoute objects allocated in one behaviour
MaxChunks == 2    \* chunks the rendering engine produces for one element
MaxPeriods == 2   \* times-to-live of the route cache that the clock runs through
MaxInputs == 3    \* execute calls made on one batched action
MaxBatchTime == 4 \* milliseconds through which a batched action is followed
MaxEmits == 3     \* chunks that the handler of a streaming action emits
MaxChecks == 4    \* calls of rateLimiter.check
MaxLimiterTime == 3 \* milliseconds through which the rate limiter is followed
MaxActionTicks == 6 \* steps of the clock through which an action is followed

(* Program constants *)

ROUTE_CACHE_TTL == 1000 * 60 * 5

STATIC == "static"
DYNAMIC == "dynamic"
CATCH_ALL == "catch_all"

NoHandler == "undefined"   \* an absent routeHandler / layoutHandler
NoName == << >>            \* an absent paramName

----------------------------------------------------------------------------
(* String helpers: what the JavaScript string methods used by the router   *)
(* compute on sequences of characters.                                     *)

StartsWith(s, c) == Len(s) >= 1 /\ s[1] = c
EndsWith(s, c) == Len(s) >= 1 /\ s[Len(s)] = c
Slice1(s) == SubSeq(s, 2, Len(s))

RECURSIVE SplitFrom(_, _, _, _)
SplitFrom(s, i, cur, acc) ==
  IF i > Len(s) THEN Append(acc, cur)
  ELSE IF s[i] = "/" THEN SplitFrom(s, i + 1, << >>, Append(acc, cur))
  ELSE SplitFrom(s, i + 1, Append(cur, s[i]), acc)

\* path.split("/").filter(Boolean)
SplitPath(s) == SelectSeq(SplitFrom(s, 1, << >>, << >>), LAMBDA x : x # << >>)

RECURSIVE JoinFrom(_, _)
\* segments.slice(index).join("/"), index counted from 1
JoinFrom(segs, index) ==
  IF index > Len(segs) THEN << >>
  ELSE IF index = Len(segs) THEN segs[index]
  ELSE segs[index] \o <<"/">> \o JoinFrom(segs, index + 1)

Max(a, b) == IF a >= b THEN a ELSE b

----------------------------------------------------------------------------
(* Segment parser *)

\* a parser that takes ":" and "*" as segments with an empty name
ParseSegmentAllowingEmptyName(segment) ==
  IF StartsWith(segment, "(") /\ EndsWith(segment, ")")
  THEN [segment |-> segment, type |-> STATIC, isDynamic |-> FALSE,
        isCatchAll |-> FALSE, paramName |-> NoName, error |-> ""]
  ELSE IF StartsWith(segment, "*")
  THEN [segment |-> segment, type |-> CATCH_ALL, isDynamic |-> TRUE,
        isCatchAll |-> TRUE, paramName |-> Slice1(segment), error |-> ""]
  ELSE IF StartsWith(segment, ":")
  THEN [segment |-> segment, type |-> DYNAMIC, isDynamic |-> TRUE,
        isCatchAll |-> FALSE, paramName |-> Slice1(segment), error |-> ""]
  ELSE [segment |-> segment, type |-> STATIC, isDynamic |-> FALSE,
        isCatchAll |-> FALSE, paramName |-> NoName, error |-> ""]

\* the callback that parseSegments maps over the segments
ParseSegment(segment) ==
  IF StartsWith(segment, "(") /\ EndsWith(segment, ")")
  THEN [segment |-> segment, type |-> STATIC, isDynamic |-> FALSE,
        isCatchAll |-> FALSE, paramName |-> NoName, error |-> ""]
  ELSE IF StartsWith(segment, "*")
  THEN [segment |-> segment, type |-> CATCH_ALL, isDynamic |-> TRUE,
        isCatchAll |-> TRUE, paramName |-> Slice1(segment),
        error |-> IF Slice1(segment) = << >>
                  THEN "Catch-all segment must have a name" ELSE ""]
  ELSE IF StartsWith(segment, ":")
  THEN [segment |-> segment, type |-> DYNAMIC, isDynamic |-> TRUE,
        isCatchAll |-> FALSE, paramName |-> Slice1(segment),
        error |-> IF Slice1(segment) = << >>
                  THEN "Dynamic segment must have a name" ELSE ""]
  ELSE [segment |-> segment, type |-> STATIC, isDynamic |-> FALSE,
        isCatchAll |-> FALSE, paramName |-> NoName, error |-> ""]

\* the parsed segments; the first error met by the map is the one thrown
ParseSegments(path) ==
  LET raw == SplitPath(path)
      parsed == [k \in 1..Len(raw) |-> ParseSegment(raw[k])]
      bad == {k \in 1..Len(raw) : parsed[k].error # ""}
  IN [segs |-> parsed,
      error |-> IF bad = {} THEN ""
                ELSE parsed[CHOOSE k \in bad : \A j \in bad : k <= j].error]

----------------------------------------------------------------------------
(* Route tree *)

Root == << >>
Parent(n) == SubSeq(n, 1, Len(n) - 1)

CreateNode(type, paramName) ==
  [type |-> type, paramName |-> paramName, children |-> << >>,
   middleware |-> << >>, isLayout |-> FALSE, isGroup |-> FALSE,
   routeHandler |-> NoHandler, layoutHandler |-> NoHandler, priority |-> 0]

RECURSIVE SortFrom(_, _, _, _)
\* [...entries].sort((a, b) => b.priority - a.priority): a stable sort,
\* highest priority first; keys of equal priority keep their order
SortFrom(t, n, keys, p) ==
  IF p < 0 THEN << >>
  ELSE SelectSeq(keys, LAMBDA k : t[Append(n, k)].priority = p)
         \o SortFrom(t, n, keys, p - 1)

SortChildren(t, n, keys) ==
  LET top == CHOOSE p \in {t[Append(n, keys[k])].priority : k \in 1..Len(keys)} :
               \A k \in 1..Len(keys) : t[Append(n, keys[k])].priority <= p
  IN SortFrom(t, n, keys, top)

\* one iteration of the descent loop of addRoute: the tree afterwards
DescendStep(t, node, seg, priority) ==
  LET child == Append(node, seg.segment)
      t1 == IF child \in DOMAIN t THEN t
            ELSE LET withChild ==
                       (child :> CreateNode(IF seg.isCatchAll THEN CATCH_ALL
                                            ELSE IF seg.isDynamic THEN DYNAMIC
                                            ELSE STATIC, seg.paramName)) @@ t
                     keys == Append(t[node].children, seg.segment)
                 IN [withChild EXCEPT ![node].children =
                       IF Len(keys) > 1 THEN SortChildren(withChild, node, keys)
                       ELSE keys]
  IN [t1 EXCEPT ![child].priority = Max(t1[child].priority, priority)]

RECURSIVE Descend(_, _, _, _, _)
Descend(t, node, segs, k, priority) ==
  IF k > Len(segs) THEN [tree |-> t, node |-> node]
  ELSE Descend(DescendStep(t, node, segs[k], priority),
               Append(node, segs[k].segment), segs, k + 1, priority)

\* addRoute without the duplicate route handler check: the second
\* registration replaces the handler
AddRouteOverwriting(t, reg) ==
  LET parsed == ParseSegments(reg.path)
      d == Descend(t, Root, parsed.segs, 1, reg.priority)
      node == d.node
      set == IF reg.isLayout
             THEN [d.tree EXCEPT ![node].layoutHandler = reg.handler]
             ELSE [d.tree EXCEPT ![node].routeHandler = reg.handler]
  IN IF parsed.error # "" THEN [tree |-> t, threw |-> parsed.error]
     ELSE IF reg.isLayout /\ d.tree[node].layoutHandler # NoHandler
     THEN [tree |-> d.tree, threw |-> "Duplicate layout handler defined"]
     ELSE [tree |-> [set EXCEPT ![node].isGroup = reg.isGroup,
                                ![node].isLayout = reg.isLayout,
                                ![node].middleware = @ \o reg.middleware],
           threw |-> ""]

\* addRoute up to its return or throw: the tree it leaves and what it threw
AddRouteResult(t, reg) ==
  LET parsed == ParseSegments(reg.path)
      d == Descend(t, Root, parsed.segs, 1, reg.priority)
      node == d.node
      dup == IF reg.isLayout THEN d.tree[node].layoutHandler # NoHandler
             ELSE d.tree[node].routeHandler # NoHandler
      set == IF reg.isLayout
             THEN [d.tree EXCEPT ![node].layoutHandler = reg.handler]
             ELSE [d.tree EXCEPT ![node].routeHandler = reg.handler]
  IN IF parsed.error # "" THEN [tree |-> t, threw |-> parsed.error]
     ELSE IF dup
     THEN [tree |-> d.tree,
           threw |-> IF reg.isLayout THEN "Duplicate layout handler defined"
                     ELSE "Duplicate route handler defined"]
     ELSE [tree |-> [set EXCEPT ![node].isGroup = reg.isGroup,
                                ![node].isLayout = reg.isLayout,
                                ![node].middleware = @ \o reg.middleware],
           threw |-> ""]

----------------------------------------------------------------------------
(* Matching.  params is the one mutable object that match hands to         *)
(* matchNode; every operator returns it as the call leaves it.             *)

SetParam(params, name, value) == (name :> value) @@ params
DeleteParam(params, name) == [k \in DOMAIN params \ {name} |-> params[k]]

NoMatch(params) == [ok |-> FALSE, node |-> Root, params |-> params]

RECURSIVE MatchNode(_, _, _, _, _)
RECURSIVE TryStatic(_, _, _, _, _, _)
RECURSIVE TryDynamic(_, _, _, _, _, _)
RECURSIVE TryCatchAll(_, _, _, _, _, _)

\* the loop over node.children.values() that tries the static children
TryStatic(t, node, segs, index, params, k) ==
  IF k > Len(t[node].children) THEN NoMatch(params)
  ELSE LET child == Append(node, t[node].children[k])
       IN IF t[child].type = STATIC /\ t[node].children[k] = segs[index]
          THEN LET result == MatchNode(t, child, segs, index + 1, params)
               IN IF result.ok THEN result
                  ELSE TryStatic(t, node, segs, index, result.params, k + 1)
          ELSE TryStatic(t, node, segs, index, params, k + 1)

\* the loop that tries the dynamic children and leaves the binding of a
\* child that failed in params
TryDynamicKeepingBinding(t, node, segs, index, params, k) ==
  IF k > Len(t[node].children) THEN NoMatch(params)
  ELSE LET child == Append(node, t[node].children[k])
           name == t[child].paramName
       IN IF t[child].type = DYNAMIC /\ name # NoName
          THEN LET result == MatchNode(t, child, segs, index + 1,
                                       SetParam(params, name, segs[index]))
               IN IF result.ok THEN result
                  ELSE TryDynamic(t, node, segs, index, result.params, k + 1)
          ELSE TryDynamic(t, node, segs, index, params, k + 1)

\* the loop that tries the dynamic children, with its backtracking
TryDynamic(t, node, segs, index, params, k) ==
  IF k > Len(t[node].children) THEN NoMatch(params)
  ELSE LET child == Append(node, t[node].children[k])
           name == t[child].paramName
       IN IF t[child].type = DYNAMIC /\ name # NoName
          THEN LET result == MatchNode(t, child, segs, index + 1,
                                       SetParam(params, name, segs[index]))
                   restored == IF name \notin DOMAIN params
                               THEN DeleteParam(result.params, name)
                               ELSE SetParam(result.params, name, params[name])
               IN IF result.ok THEN result
                  ELSE TryDynamic(t, node, segs, index, restored, k + 1)
          ELSE TryDynamic(t, node, segs, index, params, k + 1)

\* the loop that tries the catch-all children
TryCatchAll(t, node, segs, index, params, k) ==
  IF k > Len(t[node].children) THEN NoMatch(params)
  ELSE LET child == Append(node, t[node].children[k])
           name == t[child].paramName
       IN IF t[child].type = CATCH_ALL /\ name # NoName
          THEN [ok |-> TRUE, node |-> child,
                params |-> SetParam(params, name, JoinFrom(segs, index))]
          ELSE TryCatchAll(t, node, segs, index, params, k + 1)

\* matchNode trying the dynamic children before the static ones
MatchNodeDynamicFirst(t, node, segs, index, params) ==
  IF index = Len(segs) + 1
  THEN IF t[node].routeHandler # NoHandler
       THEN [ok |-> TRUE, node |-> node, params |-> params]
       ELSE NoMatch(params)
  ELSE LET d == TryDynamic(t, node, segs, index, params, 1)
       IN IF d.ok THEN d
          ELSE LET s == TryStatic(t, node, segs, index, d.params, 1)
               IN IF s.ok THEN s
                  ELSE TryCatchAll(t, node, segs, index, s.params, 1)

MatchNode(t, node, segs, index, params) ==
  IF index = Len(segs) + 1
  THEN IF t[node].routeHandler # NoHandler
       THEN [ok |-> TRUE, node |-> node, params |-> params]
       ELSE NoMatch(params)
  ELSE LET s == TryStatic(t, node, segs, index, params, 1)
       IN IF s.ok THEN s
          ELSE LET d == TryDynamic(t, node, segs, index, s.params, 1)
               IN IF d.ok THEN d
                  ELSE TryCatchAll(t, node, segs, index, d.params, 1)

RECURSIVE CollectLayoutsLeafFirst(_, _)
RECURSIVE CollectLayouts(_, _)
\* the walk up currentNode.parent with push in the place of unshift
CollectLayoutsLeafFirst(t, node) ==
  LET self == IF t[node].isLayout /\ t[node].layoutHandler # NoHandler
              THEN <<node>> ELSE << >>
  IN IF node = Root THEN self
     ELSE self \o CollectLayoutsLeafFirst(t, Parent(node))

\* the while loop that walks currentNode.parent and unshifts the layouts
CollectLayouts(t, node) ==
  LET self == IF t[node].isLayout /\ t[node].layoutHandler # NoHandler
              THEN <<node>> ELSE << >>
  IN IF node = Root THEN self ELSE CollectLayouts(t, Parent(node)) \o self

\* the tree walk of match: the MatchedRoute it builds, or no match
Walk(t, pathname) ==
  LET m == MatchNode(t, Root, SplitPath(pathname), 1, << >>)
  IN IF m.ok
     THEN [ok |-> TRUE, node |-> m.node, params |-> m.params,
           layouts |-> CollectLayouts(t, m.node)]
     ELSE [ok |-> FALSE, node |-> Root, params |-> m.params, layouts |-> << >>]

CacheHit(pathname) ==
  pathname \in DOMAIN routeCache /\ now < routeCache[pathname].expires

\* match that stores only the results that found a route
MatchWithoutNegativeCache(pathname) ==
  LET w == Walk(tree, pathname)
      entry(ref) == [data |-> ref, timestamp |-> now,
                     expires |-> now + ROUTE_CACHE_TTL]
  IN IF CacheHit(pathname)
     THEN [ref |-> routeCache[pathname].data, hit |-> TRUE,
           cache |-> routeCache, objs |-> objs]
     ELSE IF ~w.ok
     THEN [ref |-> 0, hit |-> FALSE, cache |-> routeCache, objs |-> objs]
     ELSE [ref |-> Len(objs) + 1, hit |-> FALSE,
           cache |-> (pathname :> entry(Len(objs) + 1)) @@ routeCache,
           objs |-> Append(objs, [node |-> w.node, params |-> w.params,
                                  layouts |-> w.layouts])]

\* match(pathname): the reference it returns (0 for null), whether the
\* cache answered, and the cache and the heap it leaves.  The object put in
\* the cache is the object returned, and a cache hit returns it again.  The
\* clock does not advance between the reads of Date.now() of one call.
Match(pathname) ==
  LET w == Walk(tree, pathname)
      entry(ref) == [data |-> ref, timestamp |-> now,
                     expires |-> now + ROUTE_CACHE_TTL]
  IN IF CacheHit(pathname)
     THEN [ref |-> routeCache[pathname].data, hit |-> TRUE,
           cache |-> routeCache, objs |-> objs]
     ELSE IF ~w.ok
     THEN [ref |-> 0, hit |-> FALSE,
           cache |-> (pathname :> entry(0)) @@ routeCache, objs |-> objs]
     ELSE [ref |-> Len(objs) + 1, hit |-> FALSE,
           cache |-> (pathname :> entry(Len(objs) + 1)) @@ routeCache,
           objs |-> Append(objs, [node |-> w.node, params |-> w.params,
                                  layouts |-> w.layouts])]

----------------------------------------------------------------------------
(* Inputs *)

Handlers == {"H1", "H2", "L1"}

Reg(path, handler, isLayout, isGroup, middleware, priority) ==
  [path |-> path, handler |-> handler, isLayout |-> isLayout,
   isGroup |-> isGroup, middleware |-> middleware, priority |-> priority]

\* the registrations offered to addRoute when the router is driven directly
RouterRegs ==
  { Reg(<<"/", "u", "/", "p">>, "H1", FALSE, FALSE, << >>, 0),
    Reg(<<"/", "u", "/", "p">>, "H2", FALSE, FALSE, << >>, 0),
    Reg(<<"/", "u", "/", ":", "i">>, "H2", FALSE, FALSE, << >>, 0),
    Reg(<<"/", "u", "/", ":", "i">>, "H2", FALSE, FALSE, << >>, 1),
    Reg(<<"/", "(", "m", ")">>, "L1", TRUE, TRUE, << >>, 0),
    Reg(<<"/", "(", "m", ")", "/", "h">>, "H1", FALSE, FALSE, << >>, 0) }

\* what a middleware does with the continuation it is handed:
\*   pass       async (req, params, next) => { await next(); }
\*   stop       () => {}
\*   throw      () => { throw new Error() }
\*   twice      async (req, params, next) => { await next(); await next(); }
\*   twiceDrop  async (req, params, next) => { await next(); next(); }
\*   mutate     (req, params, next) => { params.i = "x"; return next(); }
Behaviours == {"pass", "stop", "throw", "twice", "twiceDrop"}
CallsNext(mw) == mw \in {"pass", "twice", "twiceDrop", "mutate"}
CallsNextAgain(mw) == mw \in {"twice", "twiceDrop"}
AwaitsSecondNext(mw) == mw = "twice"

\* the middleware lists given to addRoute: two middleware, at most one of
\* which does something else than pass the request on
MwLists ==
  { <<a, "pass">> : a \in Behaviours } \cup { <<"pass", "twice">> }

\* the registrations offered to addRoute when requests are rendered: a
\* layout at /(m), a page at /(m)/:i, and a layout at the path of the page
RenderRegs ==
  { Reg(<<"/", "(", "m", ")">>, "L1", TRUE, TRUE, mws, 0) : mws \in MwLists }
    \cup { Reg(<<"/", "(", "m", ")", "/", ":", "i">>, "H1", FALSE, FALSE, mws, 0) :
             mws \in MwLists }
    \cup { Reg(<<"/", "(", "m", ")", "/", ":", "i">>, "L1", TRUE, FALSE, << >>, 0) }

\* the pathnames requested
RenderPathnames == { <<"/", "(", "m", ")", "/", "4">>, <<"/", "x">> }

\* how a route handler call ends: with an element, with a value that is not
\* an element, with an exception or rejection, or not within the time allowed
HandlerOutcomes == {"element", "invalid", "throw", "hang"}

\* err.message of what a handler or the engine throws: a text with the five
\* characters that HTML reserves, or undefined when the value thrown is not
\* an Error
NoMessage == <<"undefined">>
ThrownMessages == { <<"<", "a", ">", "&", "\"", "'">>, NoMessage }

\* how a handler that did not settle in the time allowed settles later
LateOutcomes == {"element", "throw"}

\* how renderToReadableStream ends: with a stream, with an exception or
\* rejection, or not within the time allowed
EngineOutcomes == {"stream", "throw", "hang"}

\* the values globalThis._layouts is given before the server starts
WrapperLists == { << >>, <<"A", "B">> }

NoElement == [valid |-> FALSE, handler |-> NoHandler, wraps |-> << >>]

\* the pathnames asked of match
Pathnames ==
  { <<"/", "u", "/", "p">>, <<"/", "u", "/", "4">>, <<"/", "h">> }

\* what a caller writes into the params of a result it holds
MutKeys == { <<"i">> }
MutValues == { <<"x">> }

\* what the middleware "mutate" writes into the params it is given
MutatedKey == <<"i">>
MutatedValue == <<"x">>

----------------------------------------------------------------------------
(* State *)

Idle ==
  [pc |-> "idle", method |-> "GET", pathname |-> << >>, matched |-> 0,
   chain |-> 0, index |-> 0, stack |-> << >>, error |-> FALSE,
   doubleNext |-> {}, element |-> NoElement, buf |-> << >>,
   status |-> 0, body |-> << >>, bodyState |-> "none",
   message |-> << >>, late |-> "none"]

NoCall ==
  [op |-> "none", path |-> << >>, handler |-> NoHandler, isLayout |-> FALSE,
   threw |-> "", ref |-> 0, hit |-> FALSE]

\* createBatchedAction(handler, {maxBatchSize, maxWaitMs}) has returned:
\* the queue is empty and batchTimeout is null.  handed, enqueuedAt and
\* settled keep what the handler and the callers have been given.
BatchedInit(maxBatchSize, maxWaitMs) ==
  [maxBatchSize |-> maxBatchSize, maxWaitMs |-> maxWaitMs,
   queue |-> << >>, batchTimeout |-> [armed |-> FALSE, due |-> 0],
   enqueuedAt |-> << >>, handed |-> << >>, settled |-> << >>]

\* stream(input) has been called and has called the handler, which has not
\* emitted yet: chunks is empty, nothing was yielded, and the generator is at
\* the test of its while loop
StreamingInit ==
  [chunks |-> << >>, emitted |-> 0, yielded |-> << >>,
   handlerPromise |-> "pending", pc |-> "loop"]

\* new RateLimiter(): no key has a timestamp; calls keeps the calls of check
LimiterInit(maxRequests, windowMs) ==
  [maxRequests |-> maxRequests, windowMs |-> windowMs,
   requests |-> << >>, calls |-> << >>]

\* config.retry of createAction: undefined, or {attempts, backoff}
NoRetry == [enabled |-> FALSE, attempts |-> 0, backoff |-> 1]
Retry(attempts, backoff) ==
  [enabled |-> TRUE, attempts |-> attempts, backoff |-> backoff]

\* createAction(handler, {cache, retry, timeout}).execute(input) has not
\* been called.  invocations counts the calls of the handler and running
\* those that have not settled; the value or error of the k-th is k.
ActionInit(retry, timeout) ==
  [retry |-> retry, timeout |-> timeout, pc |-> "idle", attempt |-> 0,
   invocations |-> 0, running |-> 0, retryDue |-> 0, timeoutDue |-> 0,
   executePromise |-> [state |-> "none", of |-> 0],
   result |-> [status |-> "none", error |-> "", of |-> 0],
   cacheSets |-> 0]

\* the router as its constructor leaves it, and no request
RouterInit ==
  /\ tree = (Root :> CreateNode(STATIC, NoName))
  /\ routeCache = << >>
  /\ objs = << >>
  /\ now = 0
  /\ last = NoCall
  /\ req = Idle
  /\ renderCache = << >>
  /\ events = << >>
  /\ unhandled = FALSE
  /\ layoutsGlobal \in WrapperLists
  /\ adds = 0
  /\ lastCacheCleanup = 0
  /\ timerDue = ROUTE_CACHE_TTL
  /\ unranked = (Root :> CreateNode(STATIC, NoName))

Init ==
  /\ RouterInit
  /\ batched = BatchedInit(1, 1)
  /\ streaming = StreamingInit
  /\ limiter = LimiterInit(1, 1)
  /\ action = ActionInit(NoRetry, 1)

----------------------------------------------------------------------------
(* Operations of the router *)

\* an addRoute that leaves the Match Cache as it is
AddRouteKeepingCache(reg) ==
  /\ adds < MaxAdds
  /\ req.pc \in {"idle", "done"}
  /\ LET r == AddRouteResult(tree, reg)
     IN /\ tree' = r.tree
        /\ last' = [NoCall EXCEPT !.op = "addRoute", !.path = reg.path,
                                  !.handler = reg.handler,
                                  !.isLayout = reg.isLayout, !.threw = r.threw]
  /\ adds' = adds + 1
  /\ unranked' = AddRouteResult(unranked, [reg EXCEPT !.priority = 0]).tree
  /\ UNCHANGED <<actions, sweeper, routeCache, objs, now, req, renderCache, events, unhandled,
               layoutsGlobal>>

\* router.addRoute(reg.path, reg.handler, {isLayout, isGroup, middleware, priority})
\* Routes are registered before a request or between two requests.
AddRoute(reg) ==
  /\ adds < MaxAdds
  /\ req.pc \in {"idle", "done"}
  /\ LET r == AddRouteResult(tree, reg)
     IN /\ tree' = r.tree
        /\ routeCache' = IF r.threw = "" THEN << >> ELSE routeCache
        /\ last' = [NoCall EXCEPT !.op = "addRoute", !.path = reg.path,
                                  !.handler = reg.handler,
                                  !.isLayout = reg.isLayout, !.threw = r.threw]
  /\ adds' = adds + 1
  /\ unranked' = AddRouteResult(unranked, [reg EXCEPT !.priority = 0]).tree
  /\ UNCHANGED <<actions, sweeper, objs, now, req, renderCache, events, unhandled,
               layoutsGlobal>>

\* router.match(pathname), called from outside the router
MatchCall(pathname) ==
  /\ req.pc = "idle"
  /\ LET m == Match(pathname)
     IN /\ Len(m.objs) <= MaxObjs
        /\ routeCache' = m.cache
        /\ objs' = m.objs
        /\ last' = [NoCall EXCEPT !.op = "match", !.path = pathname,
                                  !.ref = m.ref, !.hit = m.hit]
  /\ UNCHANGED <<actions, sweeper, unranked, tree, now, req, renderCache, events, unhandled,
               layoutsGlobal, adds>>

\* the caller of match writes result.params[key] = value
MutateParams(ref, key, value) ==
  /\ req.pc = "idle"
  /\ ref \in 1..Len(objs)
  /\ objs' = [objs EXCEPT ![ref].params = SetParam(@, key, value)]
  /\ last' = [NoCall EXCEPT !.op = "mutate", !.ref = ref]
  /\ UNCHANGED <<actions, sweeper, unranked, tree, routeCache, now, req, renderCache, events, unhandled,
               layoutsGlobal, adds>>

RouterNext ==
  \/ \E reg \in RouterRegs : AddRoute(reg)
  \/ \E pathname \in Pathnames : MatchCall(pathname)
  \/ \E ref \in 1..MaxObjs, key \in MutKeys, value \in MutValues :
       MutateParams(ref, key, value)

SpecRouter == Init /\ [][RouterNext]_vars

----------------------------------------------------------------------------
(* router.render, runMiddleware and renderRSC.  render.ts holds both sides   *)
(* of an unresolved merge; renderRSC is modelled from the side that takes   *)
(* route.handler, which is what router.render passes (render.ts:81-107,     *)
(* 139-173, 180-211).  One request is rendered at a time.                   *)

Reverse(seq) == [k \in 1..Len(seq) |-> seq[Len(seq) + 1 - k]]

Text(t) == [kind |-> "text", n |-> 0, text |-> t, chars |-> << >>]
ShellStart == [kind |-> "shellStart", n |-> 0, text |-> "", chars |-> << >>]
ShellEnd == [kind |-> "shellEnd", n |-> 0, text |-> "", chars |-> << >>]
\* the k-th chunk of the stream into which the element of the request is
\* rendered: what it holds is the work of the handler that made the element
Chunk(k) ==
  [kind |-> "chunk", n |-> k, text |-> req.element.handler, chars |-> << >>]

Event(kind, chain, node, index, mw, hasParams, params) ==
  [kind |-> kind, chain |-> chain, node |-> node, index |-> index, mw |-> mw,
   hasParams |-> hasParams, params |-> params]

\* the middleware of the route node run before that of the layouts
ChainRouteFirst(r) == <<objs[r.matched].node>> \o objs[r.matched].layouts

\* the layouts of the match followed by its node: the nodes whose middleware
\* router.render runs, in the order it runs them
Chain(r) == objs[r.matched].layouts \o <<objs[r.matched].node>>
ChainNode(r) == Chain(r)[r.chain]
CacheKey(r) == <<r.method, r.pathname>>

\* render resolves with a complete response
Respond(r, status, body) ==
  [r EXCEPT !.pc = "done", !.status = status, !.body = body,
            !.bodyState = "closed", !.stack = << >>, !.error = FALSE]

\* the catch block of router.render
InternalServerError(r) == Respond(r, 500, <<Text("Internal Server Error")>>)

TimeoutMessage == <<"T", "i", "m", "e", "o", "u", "t", " ", "e", "x", "c", "e", "e", "d", "e", "d">>
InvalidElementMessage ==
  <<"R", "o", "u", "t", "e", " ", "h", "a", "n", "d", "l", "e", "r", " ", "r", "e", "t", "u", "r", "n", "e", "d", " ">>
    \o <<"i", "n", "v", "a", "l", "i", "d", " ", "J", "S", "X", " ", "e", "l", "e", "m", "e", "n", "t">>

RECURSIVE EscapeHtmlAngleBrackets(_)
RECURSIVE EscapeHtml(_)

\* an escapeHtml that replaces the two angle brackets only
EscapeHtmlAngleBrackets(str) ==
  IF str = << >> THEN << >>
  ELSE (CASE Head(str) = "<" -> <<"&", "l", "t", ";">>
          [] Head(str) = ">" -> <<"&", "g", "t", ";">>
          [] OTHER -> <<Head(str)>>) \o EscapeHtmlAngleBrackets(Tail(str))

\* escapeHtml(str): str.replace(/[&<>"']/g, ...) with its switch
EscapeHtml(str) ==
  IF str = << >> THEN << >>
  ELSE (CASE Head(str) = "&" -> <<"&", "a", "m", "p", ";">>
          [] Head(str) = "<" -> <<"&", "l", "t", ";">>
          [] Head(str) = ">" -> <<"&", "g", "t", ";">>
          [] Head(str) = "\"" -> <<"&", "q", "u", "o", "t", ";">>
          [] Head(str) = "'" -> <<"&", "#", "3", "9", ";">>
          [] OTHER -> <<Head(str)>>) \o EscapeHtml(Tail(str))

\* the text between <pre> and </pre> of the page of error500
Pre(str) == [kind |-> "pre", n |-> 0, text |-> "", chars |-> str]

\* the catch block of renderRSC: error500(err.message).  When err.message is
\* undefined, escapeHtml throws inside the catch block and the catch block of
\* router.render answers.
Error500(r, msg) ==
  IF msg = NoMessage
  THEN InternalServerError([r EXCEPT !.message = msg])
  ELSE Respond([r EXCEPT !.message = msg], 500,
               <<Text("<!DOCTYPE html><html><body><h1>500 Error</h1><pre>"),
                 Pre(EscapeHtml(msg)),
                 Text("</pre></body></html>")>>)

\* the body of htmlShellBuffer(buffer)
HtmlShellBuffer(buffer) == <<ShellStart>> \o buffer \o <<ShellEnd>>

\* cache.get(cacheKey) instanceof Uint8Array, and cache.set(cacheKey, buffer)
RenderCacheHas(key) == key \in DOMAIN renderCache
RenderCacheSet(key, buffer) == (key :> buffer) @@ renderCache

\* a renderRSC that never looks into the Render Cache
NeverServesFromCache(r) == FALSE

\* the test of renderRSC on what cache.get(cacheKey) returned
ServesFromCache(r) == RenderCacheHas(CacheKey(r))

\* the continuation captures the index of its middleware and runs the chain
\* from there every time it is called
NextWrapperRedispatch(r) ==
  LET top == Len(r.stack)
  IN [r EXCEPT !.stack[top].isNextCalled = TRUE, !.pc = "mw",
               !.index = r.stack[top].index,
               !.doubleNext = IF r.stack[top].isNextCalled
                              THEN @ \cup {<<r.chain, r.stack[top].index>>}
                              ELSE @]

\* the continuation handed to the middleware of the top frame is called:
\* the first call runs the rest of the chain, a later call throws
NextWrapper(r) ==
  LET top == Len(r.stack)
  IN IF r.stack[top].isNextCalled
     THEN [r EXCEPT !.error = TRUE,
                    !.doubleNext = @ \cup {<<r.chain, r.stack[top].index>>}]
     ELSE [r EXCEPT !.stack[top].isNextCalled = TRUE, !.pc = "mw"]

\* a router.render that answers from the Render Cache before it runs the
\* middleware
StartRenderCacheFirst(pathname) ==
  /\ req.pc \in {"idle", "done"}
  /\ LET m == Match(pathname)
         r == [Idle EXCEPT !.pathname = pathname, !.matched = m.ref]
     IN /\ Len(m.objs) <= MaxObjs
        /\ routeCache' = m.cache
        /\ objs' = m.objs
        /\ req' = IF m.ref = 0
                  THEN Respond([Idle EXCEPT !.pathname = pathname], 404,
                               <<Text("Not Found")>>)
                  ELSE IF RenderCacheHas(CacheKey(r))
                  THEN Respond(r, 200, HtmlShellBuffer(renderCache[CacheKey(r)]))
                  ELSE [r EXCEPT !.pc = "mw", !.chain = 1]
  /\ events' = << >>
  /\ unhandled' = FALSE
  /\ UNCHANGED <<actions, sweeper, unranked, tree, now, last, renderCache, layoutsGlobal, adds>>

\* router.render(req, pathname) up to its first await
StartRender(pathname) ==
  /\ req.pc \in {"idle", "done"}
  /\ LET m == Match(pathname)
     IN /\ Len(m.objs) <= MaxObjs
        /\ routeCache' = m.cache
        /\ objs' = m.objs
        /\ req' = IF m.ref = 0
                  THEN Respond([Idle EXCEPT !.pathname = pathname], 404,
                               <<Text("Not Found")>>)
                  ELSE [Idle EXCEPT !.pc = "mw", !.pathname = pathname,
                                    !.matched = m.ref, !.chain = 1]
  /\ events' = << >>
  /\ unhandled' = FALSE
  /\ UNCHANGED <<actions, sweeper, unranked, tree, now, last, renderCache, layoutsGlobal, adds>>

\* next() of runMiddleware: the next middleware of the node is invoked with
\* the params object of the match result itself, and runs up to its own call
\* of the continuation, its return or its throw
RunNext ==
  /\ req.pc = "mw"
  /\ LET mws == tree[ChainNode(req)].middleware
     IN IF req.index >= Len(mws)
        THEN /\ req' = [req EXCEPT !.pc = "unwind"]
             /\ UNCHANGED <<events, objs>>
        ELSE LET cur == mws[req.index + 1]
                 r1 == [req EXCEPT !.index = @ + 1]
                 frame == [index |-> req.index + 1, mw |-> cur,
                           isNextCalled |-> FALSE, calls |-> 1]
             IN /\ events' = Append(events,
                     Event("middleware", req.chain, ChainNode(req),
                           req.index + 1, cur, TRUE, objs[req.matched].params))
                /\ objs' = IF cur = "mutate"
                           THEN [objs EXCEPT ![req.matched].params =
                                   SetParam(@, MutatedKey, MutatedValue)]
                           ELSE objs
                /\ req' = IF cur = "throw" THEN InternalServerError(r1)
                          ELSE IF ~CallsNext(cur) THEN [r1 EXCEPT !.pc = "unwind"]
                          ELSE NextWrapper([r1 EXCEPT !.stack = Append(@, frame)])
  /\ UNCHANGED <<actions, sweeper, unranked, tree, routeCache, now, last, renderCache, unhandled,
                 layoutsGlobal, adds>>

\* an awaited call returns: to the middleware that made it, which returns or
\* calls the continuation again, or to router.render, which goes on to the
\* next node of the chain or to the handler
Resume ==
  /\ req.pc = "unwind"
  /\ IF req.stack = << >>
     THEN /\ req' = IF req.chain < Len(Chain(req))
                    THEN [req EXCEPT !.chain = @ + 1, !.index = 0, !.pc = "mw"]
                    ELSE [req EXCEPT !.pc = "handler"]
          /\ UNCHANGED unhandled
     ELSE LET top == Len(req.stack)
              f == req.stack[top]
              r1 == NextWrapper([req EXCEPT !.stack[top].calls = 2])
          IN IF CallsNextAgain(f.mw) /\ f.calls = 1
             THEN IF r1.error /\ AwaitsSecondNext(f.mw)
                  THEN /\ req' = InternalServerError(r1)
                       /\ UNCHANGED unhandled
                  ELSE /\ req' = [r1 EXCEPT !.error = FALSE]
                       /\ unhandled' = (unhandled \/ r1.error)
             ELSE /\ req' = [req EXCEPT !.stack = SubSeq(@, 1, top - 1)]
                  /\ UNCHANGED unhandled
  /\ UNCHANGED <<actions, sweeper, unranked, tree, routeCache, objs, now, last, renderCache, events,
                 layoutsGlobal, adds>>

\* the end of the try block of router.render and renderRSC up to the element
InvokeHandler(outcome) ==
  /\ req.pc = "handler"
  /\ LET node == objs[req.matched].node
         raw == [valid |-> outcome = "element",
                 handler |-> tree[node].routeHandler, wraps |-> << >>]
         wrapped == IF Len(layoutsGlobal) > 0
                    THEN [raw EXCEPT !.valid = TRUE,
                                     !.wraps = Reverse(layoutsGlobal)]
                    ELSE raw
     IN IF tree[node].routeHandler = NoHandler
        THEN /\ req' = InternalServerError(req)
             /\ UNCHANGED <<events, layoutsGlobal>>
        ELSE IF ServesFromCache(req)
        THEN /\ req' = Respond(req, 200,
                         HtmlShellBuffer(renderCache[CacheKey(req)]))
             /\ UNCHANGED <<events, layoutsGlobal>>
        ELSE /\ events' = Append(events,
                  Event("handler", req.chain, node, 0, tree[node].routeHandler,
                        FALSE, << >>))
             /\ IF outcome = "throw"
                THEN /\ \E msg \in ThrownMessages : req' = Error500(req, msg)
                     /\ UNCHANGED layoutsGlobal
                ELSE IF outcome = "hang"
                THEN /\ req' = Error500([req EXCEPT !.late = "pending"],
                                        TimeoutMessage)
                     /\ UNCHANGED layoutsGlobal
                ELSE /\ layoutsGlobal' = Reverse(layoutsGlobal)
                     /\ req' = IF wrapped.valid
                               THEN [req EXCEPT !.pc = "render", !.element = wrapped]
                               ELSE Error500(req, InvalidElementMessage)
  /\ UNCHANGED <<actions, sweeper, unranked, tree, routeCache, objs, now, last, renderCache, unhandled, adds>>

\* renderToReadableStream under withTimeout, tee, and the return of htmlShell
RenderToStream(outcome) ==
  /\ req.pc = "render"
  /\ IF outcome = "stream"
     THEN req' = [req EXCEPT !.pc = "stream", !.status = 200,
                             !.body = <<ShellStart>>, !.bodyState = "open",
                             !.buf = << >>]
     ELSE IF outcome = "throw"
     THEN \E msg \in ThrownMessages : req' = Error500(req, msg)
     ELSE req' = Error500(req, TimeoutMessage)
  /\ UNCHANGED <<actions, sweeper, unranked, tree, routeCache, objs, now, last, renderCache, events,
                 unhandled, layoutsGlobal, adds>>

\* controller.enqueue(part) on the stream of htmlShell: a stream that is in
\* the error state takes nothing and the call throws
Enqueue(r, part) ==
  IF r.bodyState = "open" THEN [r EXCEPT !.body = Append(@, part)] ELSE r

\* the engine produces a chunk, and what has been read so far is put in the
\* Render Cache at once
StreamChunkCaching ==
  /\ req.pc = "stream"
  /\ Len(req.buf) < MaxChunks
  /\ req' = [req EXCEPT !.body = Append(@, Chunk(Len(req.buf) + 1)),
                        !.buf = Append(@, Chunk(Len(req.buf) + 1))]
  /\ renderCache' = RenderCacheSet(CacheKey(req),
                                   Append(req.buf, Chunk(Len(req.buf) + 1)))
  /\ UNCHANGED <<actions, sweeper, unranked, tree, routeCache, objs, now, last, events,
                 unhandled, layoutsGlobal, adds>>

\* the engine produces a chunk: htmlShell forwards it, bufferStream keeps it
StreamChunk ==
  /\ req.pc = "stream"
  /\ Len(req.buf) < MaxChunks
  /\ req' = [Enqueue(req, Chunk(Len(req.buf) + 1)) EXCEPT
               !.buf = Append(@, Chunk(Len(req.buf) + 1))]
  /\ UNCHANGED <<actions, sweeper, unranked, tree, routeCache, objs, now, last, renderCache, events,
                 unhandled, layoutsGlobal, adds>>

\* the engine closes the stream and htmlShell closes without the suffix
StreamEndWithoutSuffix ==
  /\ req.pc = "stream"
  /\ req' = [req EXCEPT !.pc = "done", !.bodyState = "closed"]
  /\ renderCache' = RenderCacheSet(CacheKey(req), req.buf)
  /\ UNCHANGED <<actions, sweeper, unranked, tree, routeCache, objs, now, last, events,
                 unhandled, layoutsGlobal, adds>>

\* the engine closes the stream: htmlShell appends the suffix and closes,
\* bufferStream resolves and the buffer is cached
StreamEnd ==
  /\ req.pc = "stream"
  /\ req' = [Enqueue(req, ShellEnd) EXCEPT !.pc = "done",
                                           !.bodyState = "closed"]
  /\ renderCache' = RenderCacheSet(CacheKey(req), req.buf)
  /\ UNCHANGED <<actions, sweeper, unranked, tree, routeCache, objs, now, last, events, unhandled,
                 layoutsGlobal, adds>>

\* the engine's stream fails: htmlShell puts its stream in the error state
\* (the enqueue of the suffix that follows throws), and the promise of
\* bufferStream(body2).then(...) is rejected with no handler attached
StreamFail ==
  /\ req.pc = "stream"
  /\ req' = Enqueue([req EXCEPT !.pc = "done", !.bodyState = "errored"],
                    ShellEnd)
  /\ unhandled' = TRUE
  /\ UNCHANGED <<actions, sweeper, unranked, tree, routeCache, objs, now, last, renderCache, events,
                 layoutsGlobal, adds>>

\* the handler promise that lost the race of withTimeout settles with an
\* element or with a rejection that is passed to the race already decided
LateSettleRendering(outcome) ==
  /\ req.late = "pending"
  /\ req' = [req EXCEPT !.late = outcome]
  /\ renderCache' = IF outcome = "element"
                    THEN RenderCacheSet(CacheKey(req), << >>)
                    ELSE renderCache
  /\ UNCHANGED <<actions, sweeper, unranked, tree, routeCache, objs, now, last, events, unhandled,
                 layoutsGlobal, adds>>

\* the handler promise that lost the race of withTimeout settles: the race
\* is decided, its reactions to the promise change nothing
LateSettle(outcome) ==
  /\ req.late = "pending"
  /\ req' = [req EXCEPT !.late = outcome]
  /\ UNCHANGED <<actions, sweeper, unranked, tree, routeCache, objs, now, last, renderCache, events,
                 unhandled, layoutsGlobal, adds>>

RenderNext ==
  \/ \E reg \in RenderRegs : AddRoute(reg)
  \/ \E pathname \in RenderPathnames : StartRender(pathname)
  \/ RunNext
  \/ Resume
  \/ \E outcome \in HandlerOutcomes : InvokeHandler(outcome)
  \/ \E outcome \in EngineOutcomes : RenderToStream(outcome)
  \/ StreamChunk
  \/ StreamEnd
  \/ StreamFail
  \/ \E outcome \in LateOutcomes : LateSettle(outcome)

SpecRender == Init /\ [][RenderNext]_vars

----------------------------------------------------------------------------
(* Properties of the router *)

\* the node that a pattern or pathname names when every segment is a key
NodeOf(path) == SplitPath(path)

AllStatic(n) ==
  \A k \in 1..Len(n) : tree[SubSeq(n, 1, k)].type = STATIC

IsGroupSegment(segment) == StartsWith(segment, "(") /\ EndsWith(segment, ")")
HasGroup(n) == \E k \in 1..Len(n) : IsGroupSegment(n[k])
WithoutGroups(n) == SelectSeq(n, LAMBDA segment : ~IsGroupSegment(segment))

Users == <<"u">>
Profile == <<"p">>
ColonId == <<":", "i">>
GroupMain == <<"(", "m", ")">>
Home == <<"h">>

(* C1: when the pathname asked of match is, segment for segment, the path of
   a node reached through static nodes only and holding a route handler,    
   match returns that node, whatever dynamic siblings exist and whatever the 
   order in which the routes were registered. *)
C1_StaticBeatsDynamic ==
  \A pathname \in Pathnames :
    LET n == NodeOf(pathname)
    IN (n \in DOMAIN tree /\ AllStatic(n) /\ tree[n].routeHandler # NoHandler)
       => /\ Walk(tree, pathname).ok
          /\ Walk(tree, pathname).node = n
          /\ (last.op = "match" /\ last.path = pathname)
               => (last.ref # 0 /\ objs[last.ref].node = n)

\* /u/:i was registered before /u/p, both hold route handlers, and
\* match("/u/p") has just returned the static node
C1_Witness ==
  /\ <<Users, ColonId>> \in DOMAIN tree
  /\ <<Users, Profile>> \in DOMAIN tree
  /\ tree[<<Users, ColonId>>].routeHandler # NoHandler
  /\ tree[<<Users, Profile>>].routeHandler # NoHandler
  /\ tree[<<Users>>].children = <<ColonId, Profile>>
  /\ last.op = "match"
  /\ last.path = <<"/", "u", "/", "p">>
  /\ last.ref # 0
  /\ objs[last.ref].node = <<Users, Profile>>

(* C3: a group segment is zero-width: when a node holding a route handler
   has a path with a parenthesised segment, the pathname that omits the
   parenthesised segments matches that node, and a layout registered at the
   group node is in the layouts of that match. *)
C3_GroupIsZeroWidth ==
  (last.op = "match")
    => \A n \in DOMAIN tree :
         (tree[n].routeHandler # NoHandler /\ HasGroup(n)
            /\ WithoutGroups(n) = SplitPath(last.path))
         => /\ last.ref # 0
            /\ objs[last.ref].node = n
            /\ \A k \in 1..Len(n) :
                 LET a == SubSeq(n, 1, k)
                 IN (IsGroupSegment(n[k]) /\ tree[a].isLayout
                       /\ tree[a].layoutHandler # NoHandler)
                    => \E j \in 1..Len(objs[last.ref].layouts) :
                         objs[last.ref].layouts[j] = a

(* C4: the params of the result that match returns are those of the match,
   whatever callers wrote into the params of results returned earlier, also
   when the call is answered from the Match Cache. *)
C4_ParamsIndependentPerCall ==
  (last.op = "match" /\ last.ref # 0)
    => objs[last.ref].params = Walk(tree, last.path).params

(* C10: registering a route handler at a node that already holds one throws,
   and no addRoute call changes a route handler that is set. *)
C10_RouteHandlerSetOnce ==
  [][ /\ \A n \in DOMAIN tree :
           tree[n].routeHandler # NoHandler
             => (n \in DOMAIN tree' /\ tree'[n].routeHandler = tree[n].routeHandler)
      /\ (adds' = adds + 1 /\ ~last'.isLayout
            /\ NodeOf(last'.path) \in DOMAIN tree
            /\ tree[NodeOf(last'.path)].routeHandler # NoHandler)
         => last'.threw = "Duplicate route handler defined" ]_vars

\* addRoute("/u/p", H2) has just thrown and the node still holds H1
C10_Witness ==
  /\ last.op = "addRoute"
  /\ last.path = <<"/", "u", "/", "p">>
  /\ last.handler = "H2"
  /\ last.threw = "Duplicate route handler defined"
  /\ tree[<<Users, Profile>>].routeHandler = "H1"

----------------------------------------------------------------------------
(* Properties of router.render *)

IsPrefix(a, b) == Len(a) <= Len(b) /\ SubSeq(b, 1, Len(a)) = a

\* how many times the middleware at position index of the chain-th node of
\* the chain has been invoked in this request
Invocations(chain, index) ==
  Cardinality({k \in 1..Len(events) :
                 /\ events[k].kind = "middleware"
                 /\ events[k].chain = chain
                 /\ events[k].index = index})

(* C2: the route handler is invoked with the params that match extracted
   for the pathname of the request. *)
C2_HandlerReceivesParams ==
  \A k \in 1..Len(events) :
    events[k].kind = "handler"
      => /\ events[k].hasParams
         /\ events[k].params = Walk(tree, req.pathname).params

(* C5: once a middleware has returned without calling next(), no later
   middleware of the request runs, the route handler is not invoked and
   nothing is rendered. *)
C5_ReturningWithoutNextEndsRequest ==
  \A k \in 1..Len(events) :
    (events[k].kind = "middleware" /\ events[k].mw = "stop")
      => (k = Len(events) /\ req.status # 200)

(* C6: within one request the middleware run in this order: those of the
   layout nodes of the match, outermost ancestor first, each node's in the
   order of its list, then those of the route node; the route handler is
   invoked after all of them, and every middleware whose predecessors in its
   list all call next() has run by then. *)
C6_MiddlewareOrder ==
  (req.pc # "idle" /\ req.matched # 0)
    => LET m == objs[req.matched]
           order == m.layouts \o <<m.node>>
       IN /\ \A c \in 1..Len(m.layouts) :
               /\ IsPrefix(m.layouts[c], m.node)
               /\ \A b \in 1..(c - 1) :
                    Len(m.layouts[b]) < Len(m.layouts[c])
          /\ \A k \in 1..Len(events) :
               events[k].kind = "middleware"
                 => /\ events[k].chain \in 1..Len(order)
                    /\ events[k].node = order[events[k].chain]
                    /\ events[k].mw =
                         tree[events[k].node].middleware[events[k].index]
                    /\ \A j \in 1..(k - 1) :
                         /\ events[j].kind = "middleware"
                         /\ \/ events[j].chain < events[k].chain
                            \/ /\ events[j].chain = events[k].chain
                               /\ events[j].index < events[k].index
          /\ \A k \in 1..Len(events) :
               events[k].kind = "handler"
                 => /\ k = Len(events)
                    /\ \A c \in 1..Len(order) :
                         \A i \in 1..Len(tree[order[c]].middleware) :
                           (\A h \in 1..(i - 1) :
                              CallsNext(tree[order[c]].middleware[h]))
                             => Invocations(c, i) = 1

\* the handler has been invoked after the two middleware of the layout at
\* /(m) and the two middleware of the page below it
C6_Witness ==
  /\ req.matched # 0
  /\ Len(events) = 5
  /\ events[5].kind = "handler"
  /\ events[1].node = <<GroupMain>>
  /\ events[2].node = <<GroupMain>>
  /\ events[3].node = <<GroupMain, ColonId>>
  /\ events[4].node = <<GroupMain, ColonId>>
  /\ objs[req.matched].layouts = << <<GroupMain>> >>

(* C7: when a middleware has called its next() a second time, router.render
   resolves to a response with status 500. *)
C7_SecondNextGives500 ==
  (req.doubleNext # {} /\ req.status # 0) => req.status = 500

(* C8: when a middleware calls its next() a second time, no middleware after
   it in the list of its node runs twice, and each of them that the chain
   reaches (all middleware between the two call next()) runs exactly once. *)
C8_DownstreamRunsOnce ==
  \A pos \in req.doubleNext :
    LET order == objs[req.matched].layouts \o <<objs[req.matched].node>>
        mws == tree[order[pos[1]]].middleware
    IN \A j \in (pos[2] + 1)..Len(mws) :
         /\ Invocations(pos[1], j) <= 1
         /\ (\A h \in (pos[2] + 1)..(j - 1) : CallsNext(mws[h]))
              => Invocations(pos[1], j) = 1

\* a middleware has called next() twice and the one after it has run
C8_Witness ==
  \E pos \in req.doubleNext : Invocations(pos[1], pos[2] + 1) = 1

(* C9: router.render resolves to a response whatever fails, and no rejected
   promise is left without a handler. *)
C9_NoErrorEscapes ==
  /\ ~unhandled
  /\ (req.pc = "done" => req.status \in {200, 404, 500})


----------------------------------------------------------------------------
(* Registrations under one prefix: a node that is route and layout, and a   *)
(* catch-all route with a static sibling and with a dynamic sibling whose   *)
(* subtree ends in a catch-all that holds only a layout handler.            *)

TreeRegs ==
  { Reg(<<"/", "a">>, "H1", FALSE, FALSE, << >>, 0),
    Reg(<<"/", "a">>, "L1", TRUE, FALSE, << >>, 0),
    Reg(<<"/", "a", "/", "s">>, "H1", FALSE, FALSE, << >>, 0),
    Reg(<<"/", "a", "/", "*", "r">>, "H2", FALSE, FALSE, << >>, 0),
    Reg(<<"/", "a", "/", ":", "i", "/", "*", "q">>, "L1", TRUE, FALSE, << >>, 0) }

TreePathnames ==
  { <<"/", "a">>, <<"/", "a", "/", "s">>, <<"/", "a", "/", "4", "/", "5">> }

\* callers of match that only read the results they are given
TreeNext ==
  \/ \E reg \in TreeRegs : AddRoute(reg)
  \/ \E pathname \in TreePathnames : MatchCall(pathname)

SpecTree == Init /\ [][TreeNext]_vars

A == <<"a">>
S == <<"s">>
StarR == <<"*", "r">>
StarQ == <<"*", "q">>

\* node n is one of the layouts of the match result held at ref
InLayouts(n, ref) ==
  \E j \in 1..Len(objs[ref].layouts) : objs[ref].layouts[j] = n

(* C11: a node that holds both a route handler and a layout handler, in
   whichever order the two were registered, is matched as a route by its own
   pathname and is one of the layouts of every match at or below it. *)
C11_RouteAndLayoutIndependent ==
  \A n \in DOMAIN tree :
    (tree[n].routeHandler # NoHandler /\ tree[n].layoutHandler # NoHandler)
    => /\ \A pathname \in TreePathnames :
            (AllStatic(n) /\ NodeOf(pathname) = n)
            => (Walk(tree, pathname).ok /\ Walk(tree, pathname).node = n)
       /\ (last.op = "match" /\ last.ref # 0
             /\ IsPrefix(n, objs[last.ref].node))
          => InLayouts(n, last.ref)


\* the path of node n, read as a pattern, covers all of segs: a static
\* segment is equal, a dynamic segment takes one, a final catch-all the rest
Covers(n, segs) ==
  /\ \A k \in 1..Len(n) :
       /\ k <= Len(segs)
       /\ tree[SubSeq(n, 1, k)].type = STATIC => n[k] = segs[k]
       /\ tree[SubSeq(n, 1, k)].type = CATCH_ALL => k = Len(n)
  /\ tree[n].type # CATCH_ALL => Len(n) = Len(segs)

\* a route in the subtree of a static or dynamic sibling of the catch-all
\* node c covers segs
SiblingRouteCovers(c, segs) ==
  \E n \in DOMAIN tree :
    /\ Len(n) >= Len(c)
    /\ IsPrefix(Parent(c), n)
    /\ tree[SubSeq(n, 1, Len(c))].type \in {STATIC, DYNAMIC}
    /\ tree[n].routeHandler # NoHandler
    /\ Covers(n, segs)

(* C12: for a catch-all route /prefix/*name and a pathname /prefix/s1/.../sk
   with k >= 1 that no route of a static or dynamic sibling covers, match
   returns the catch-all node with params[name] = s1/.../sk. *)
C12_CatchAllCapturesRest ==
  (last.op = "match")
  => \A c \in DOMAIN tree \ {Root} :
       LET segs == SplitPath(last.path)
           name == tree[c].paramName
       IN (/\ tree[c].type = CATCH_ALL
           /\ tree[c].routeHandler # NoHandler
           /\ AllStatic(Parent(c))
           /\ IsPrefix(Parent(c), segs)
           /\ Len(segs) >= Len(c)
           /\ ~SiblingRouteCovers(c, segs))
          => /\ last.ref # 0
             /\ objs[last.ref].node = c
             /\ name \in DOMAIN objs[last.ref].params
             /\ objs[last.ref].params[name] = JoinFrom(segs, Len(c))


(* C18: a match result that is not null names a node that holds a route
   handler and whose path covers every segment of the pathname. *)
C18_MatchedNodeHoldsRouteHandler ==
  (last.op = "match" /\ last.ref # 0)
  => /\ tree[objs[last.ref].node].routeHandler # NoHandler
     /\ Covers(objs[last.ref].node, SplitPath(last.path))

----------------------------------------------------------------------------
(* Registrations that make matchNode backtrack: two dynamic siblings with   *)
(* different subtrees and a catch-all beside them, under a layout; one      *)
(* registration repeats a route with a higher priority and so throws.       *)

WalkRegs ==
  { Reg(<<"/", "a">>, "L1", TRUE, FALSE, << >>, 0),
    Reg(<<"/", "a", "/", ":", "i", "/", "x">>, "H1", FALSE, FALSE, << >>, 0),
    Reg(<<"/", "a", "/", ":", "i", "/", "x">>, "H2", FALSE, FALSE, << >>, 1),
    Reg(<<"/", "a", "/", ":", "j", "/", "y">>, "H2", FALSE, FALSE, << >>, 0),
    Reg(<<"/", "a", "/", "*", "r">>, "H2", FALSE, FALSE, << >>, 0) }

WalkPathnames ==
  { <<"/", "a", "/", "4", "/", "x">>, <<"/", "a", "/", "4", "/", "y">>,
    <<"/", "a", "/", "4", "/", "5">> }

WalkNext ==
  \/ \E reg \in WalkRegs : AddRoute(reg)
  \/ \E pathname \in WalkPathnames : MatchCall(pathname)

SpecWalk == Init /\ [][WalkNext]_vars

ColonJ == <<":", "j">>
X == <<"x">>
Y == <<"y">>

\* the MatchedRoute that the walk w describes
ResultOf(w) == [node |-> w.node, params |-> w.params, layouts |-> w.layouts]

(* C19: when no caller writes into a result, every match(p) returns what a
   walk of the tree as it is now returns for p (null, or the same node,
   params and layouts), and every entry of the Match Cache that has not
   expired agrees with such a walk: nothing computed before a successful
   registration is served after it. *)
C19_CacheAgreesWithTree ==
  /\ (last.op = "match")
     => LET w == Walk(tree, last.path)
        IN /\ (last.ref = 0) <=> ~w.ok
           /\ (last.ref # 0) => objs[last.ref] = ResultOf(w)
  /\ \A pathname \in DOMAIN routeCache :
       CacheHit(pathname)
       => LET w == Walk(tree, pathname)
              ref == routeCache[pathname].data
          IN /\ (ref = 0) <=> ~w.ok
             /\ (ref # 0) => objs[ref] = ResultOf(w)

\* match("/a/4/y") was answered by the catch-all node, then /a/:j/y was
\* registered, and match("/a/4/y") has just been answered by a new walk
C19_Witness ==
  /\ last.op = "match"
  /\ last.path = <<"/", "a", "/", "4", "/", "y">>
  /\ ~last.hit
  /\ last.ref = 2
  /\ objs[1].node = <<A, StarR>>
  /\ objs[1].params = (<<"r">> :> <<"4", "/", "y">>)
  /\ objs[2].node = <<A, ColonJ, Y>>

RECURSIVE Bindings(_, _, _)
\* the bindings of the dynamic and catch-all nodes among the first k nodes
\* of the path from the root to n, a deeper node overriding a name
Bindings(n, segs, k) ==
  IF k = 0 THEN << >>
  ELSE LET above == Bindings(n, segs, k - 1)
           node == tree[SubSeq(n, 1, k)]
       IN IF node.type = DYNAMIC
          THEN SetParam(above, node.paramName, segs[k])
          ELSE IF node.type = CATCH_ALL
          THEN SetParam(above, node.paramName, JoinFrom(segs, k))
          ELSE above

(* C20: the params of a match result are exactly the bindings of the dynamic
   and catch-all nodes on the path from the root to the matched node: a
   binding made in a branch that failed is not among them, and a walk that
   finds no route leaves the working params empty. *)
C20_ParamsAreBindingsOfPath ==
  /\ \A pathname \in WalkPathnames :
       LET w == Walk(tree, pathname)
       IN IF w.ok
          THEN w.params = Bindings(w.node, SplitPath(pathname), Len(w.node))
          ELSE DOMAIN w.params = {}
  /\ (last.op = "match" /\ last.ref # 0)
     => objs[last.ref].params =
          Bindings(objs[last.ref].node, SplitPath(last.path),
                   Len(objs[last.ref].node))

\* with :i before :j among the children of /a, match("/a/4/y") bound i in
\* the branch that failed and has returned /a/:j/y with j alone
C20_Witness ==
  /\ last.op = "match"
  /\ last.path = <<"/", "a", "/", "4", "/", "y">>
  /\ last.ref # 0
  /\ <<A, ColonId>> \in DOMAIN tree
  /\ tree[A].children[1] = ColonId
  /\ objs[last.ref].node = <<A, ColonJ, Y>>
  /\ objs[last.ref].params = (<<"j">> :> <<"4">>)

----------------------------------------------------------------------------
(* The router under a clock: Date.now() advances between the calls.         *)

ClockRegs == { Reg(<<"/", "a">>, "H1", FALSE, FALSE, << >>, 0) }
ClockPathnames == { <<"/", "a">>, <<"/", "x">> }

\* the steps by which the clock advances between two calls
TimeSteps == { ROUTE_CACHE_TTL \div 2 }

\* time passes, up to the instant at which the interval timer is due
Tick(d) ==
  /\ now + d <= MaxPeriods * ROUTE_CACHE_TTL
  /\ now + d <= timerDue
  /\ now' = now + d
  /\ UNCHANGED <<actions, sweeper, unranked, tree, routeCache, objs, last, req, renderCache, events,
               unhandled, layoutsGlobal, adds>>

\* the milliseconds between the reading of the event loop's clock from which
\* the interval timer is scheduled again and the Date.now() of the
\* cleanupCache that the timer then calls
CallbackDelays == {0, 1}

\* the interval timer set by the constructor comes due and calls
\* cleanupCache; the timer is scheduled again one interval after the
\* instant at which it was due
Sweep(delay) ==
  /\ req.pc = "idle"
  /\ now <= timerDue
  /\ timerDue <= MaxPeriods * ROUTE_CACHE_TTL
  /\ LET read == timerDue + delay
     IN /\ now' = read
        /\ timerDue' = timerDue + ROUTE_CACHE_TTL
        /\ IF read - lastCacheCleanup < ROUTE_CACHE_TTL
           THEN UNCHANGED <<routeCache, lastCacheCleanup>>
           ELSE /\ routeCache' =
                     [key \in {k \in DOMAIN routeCache :
                                 ~(read > routeCache[k].expires)}
                        |-> routeCache[key]]
                /\ lastCacheCleanup' = read
  /\ UNCHANGED <<actions, unranked, tree, objs, last, req, renderCache, events,
                 unhandled, layoutsGlobal, adds>>

ClockNext ==
  \/ \E reg \in ClockRegs : AddRoute(reg)
  \/ \E pathname \in ClockPathnames : MatchCall(pathname)
  \/ \E d \in TimeSteps : Tick(d)
  \/ \E delay \in CallbackDelays : Sweep(delay)

SpecClock == Init /\ [][ClockNext]_vars

\* this step is a call of match(pathname)
MatchStep(pathname) ==
  /\ adds' = adds
  /\ now' = now
  /\ timerDue' = timerDue
  /\ last'.op = "match"
  /\ last'.path = pathname

(* C13: a match(p) that finds no route stores a null entry for p that
   expires one time-to-live later; a match(p) made while such an entry is
   held and has not expired returns null from the cache, without a walk of
   the tree and without a change of the cache. *)
C13_NullResultIsCached ==
  [][\A pathname \in ClockPathnames :
       MatchStep(pathname)
       => /\ (last'.ref = 0 /\ ~last'.hit)
             => /\ pathname \in DOMAIN routeCache'
                /\ routeCache'[pathname] =
                     [data |-> 0, timestamp |-> now,
                      expires |-> now + ROUTE_CACHE_TTL]
          /\ (/\ pathname \in DOMAIN routeCache
              /\ routeCache[pathname].data = 0
              /\ now < routeCache[pathname].expires)
             => /\ last'.ref = 0
                /\ last'.hit
                /\ routeCache' = routeCache]_vars

\* match("/x") found no route at time 0 and, half a time-to-live later, has
\* just been answered null by the entry stored then
C13_Witness ==
  /\ last.op = "match"
  /\ last.path = <<"/", "x">>
  /\ last.ref = 0
  /\ last.hit
  /\ now = ROUTE_CACHE_TTL \div 2
  /\ routeCache[<<"/", "x">>] =
       [data |-> 0, timestamp |-> 0, expires |-> ROUTE_CACHE_TTL]


----------------------------------------------------------------------------
(* Requests rendered over a tree with a catch-all that holds only a layout  *)
(* handler, beside a static route.                                          *)

NotFoundRegs ==
  { Reg(<<"/", "a", "/", "*", "r">>, "L1", TRUE, FALSE, <<"pass">>, 0),
    Reg(<<"/", "a", "/", "s">>, "H1", FALSE, FALSE, << >>, 0) }

NotFoundPathnames ==
  { <<"/", "a", "/", "s">>, <<"/", "a", "/", "4">>, <<"/", "x">> }

\* the steps of a request that router.render has accepted
RequestNext ==
  \/ RunNext
  \/ Resume
  \/ \E outcome \in HandlerOutcomes : InvokeHandler(outcome)
  \/ \E outcome \in EngineOutcomes : RenderToStream(outcome)
  \/ StreamChunk
  \/ StreamEnd
  \/ StreamFail
  \/ \E outcome \in LateOutcomes : LateSettle(outcome)

NotFoundNext ==
  \/ \E reg \in NotFoundRegs : AddRoute(reg)
  \/ \E pathname \in NotFoundPathnames : StartRender(pathname)
  \/ RequestNext

SpecNotFound == Init /\ [][NotFoundNext]_vars

\* some node that holds a route handler covers the pathname
RouteCovers(pathname) ==
  \E n \in DOMAIN tree :
    tree[n].routeHandler # NoHandler /\ Covers(n, SplitPath(pathname))

(* C14: a request for a pathname that no route covers is answered 404 with
   the body "Not Found", and no middleware and no handler runs for it. *)
C14_NoRouteGives404 ==
  (req.pc # "idle" /\ ~RouteCovers(req.pathname))
  => /\ events = << >>
     /\ req.pc = "done" => (req.status = 404 /\ req.body = <<Text("Not Found")>>)


----------------------------------------------------------------------------
(* Properties of renderRSC *)

\* the number of handler invocations logged
HandlerCalls(evs) ==
  Cardinality({k \in 1..Len(evs) : evs[k].kind = "handler"})

(* C15: when renderRSC is entered while the Render Cache holds an entry for
   the key of the request, it answers 200 with the cached payload between
   the two parts of the shell, and neither the route handler nor the
   rendering engine is invoked. *)
C15_RenderCacheHitSkipsHandler ==
  [][(/\ req.pc = "handler"
      /\ tree[objs[req.matched].node].routeHandler # NoHandler
      /\ RenderCacheHas(CacheKey(req)))
     => /\ req'.pc = "done"
        /\ req'.status = 200
        /\ req'.body = <<ShellStart>> \o renderCache[CacheKey(req)] \o <<ShellEnd>>
        /\ req'.bodyState = "closed"
        /\ HandlerCalls(events') = HandlerCalls(events)
        /\ renderCache' = renderCache]_vars

\* a second request for a pathname whose first rendering was cached with its
\* two chunks has been answered from the Render Cache, with no handler call
C15_Witness ==
  /\ req.pc = "done"
  /\ req.status = 200
  /\ RenderCacheHas(CacheKey(req))
  /\ Len(renderCache[CacheKey(req)]) = MaxChunks
  /\ req.body = <<ShellStart>> \o renderCache[CacheKey(req)] \o <<ShellEnd>>
  /\ req.buf = << >>
  /\ HandlerCalls(events) = 0


\* the response is the complete page of error500 for a handler timed out
IsTimeoutPage(r) ==
  /\ r.pc = "done"
  /\ r.status = 500
  /\ r.bodyState = "closed"
  /\ Len(r.body) = 3
  /\ r.body[2] = Pre(TimeoutMessage)

(* C16: once the time allowed to the handler has run out with its result
   unsettled, the request is answered 500 with the timeout page and writes
   nothing to the Render Cache; when the handler settles later, with an
   element or with a rejection, the response and the Render Cache stay as
   they are and no rejection is left unhandled. *)
C16_TimeoutGives500 ==
  [][/\ (req'.late # "none")
        => (IsTimeoutPage(req') /\ renderCache' = renderCache)
     /\ (req.late = "pending" /\ req'.late \in LateOutcomes)
        => /\ req'.status = req.status
           /\ req'.body = req.body
           /\ req'.bodyState = req.bodyState
           /\ unhandled' = unhandled]_vars

\* the handler of a request answered with the timeout page has settled with
\* an element, and the Render Cache holds nothing for the request
C16_Witness ==
  /\ req.late = "element"
  /\ IsTimeoutPage(req)
  /\ HandlerCalls(events) = 1
  /\ ~RenderCacheHas(CacheKey(req))


\* the entities of the five characters that HTML reserves
Entity(char) ==
  CASE char = "&" -> <<"&", "a", "m", "p", ";">>
    [] char = "<" -> <<"&", "l", "t", ";">>
    [] char = ">" -> <<"&", "g", "t", ";">>
    [] char = "\"" -> <<"&", "q", "u", "o", "t", ";">>
    [] char = "'" -> <<"&", "#", "3", "9", ";">>
Reserved == {"&", "<", ">", "\"", "'"}

Drop(str, n) == SubSeq(str, n + 1, Len(str))

RECURSIVE Unescape(_)
\* what a browser shows for the text: every entity read back as its character
Unescape(str) ==
  IF str = << >> THEN << >>
  ELSE IF \E char \in Reserved : IsPrefix(Entity(char), str)
  THEN LET char == CHOOSE c \in Reserved : IsPrefix(Entity(c), str)
       IN <<char>> \o Unescape(Drop(str, Len(Entity(char))))
  ELSE <<Head(str)>> \o Unescape(Tail(str))

(* C17: a 500 page that renderRSC makes for an error with a message holds
   the message between <pre> and </pre> with each of & < > " ' replaced by
   its entity: none of < > " ' occurs there, every & there begins one of the
   five entities, and the text reads back as the message. *)
C17_ErrorMessageIsEscaped ==
  /\ (req.pc = "done" /\ req.status = 500 /\ req.message \notin {<< >>, NoMessage})
     => (Len(req.body) = 3 /\ req.body[2].kind = "pre")
  /\ \A k \in 1..Len(req.body) :
       (req.body[k].kind = "pre")
       => LET text == req.body[k].chars
          IN /\ \A j \in 1..Len(text) :
                  /\ text[j] \notin (Reserved \ {"&"})
                  /\ text[j] = "&"
                     => \E char \in Reserved :
                          IsPrefix(Entity(char), Drop(text, j - 1))
             /\ Unescape(text) = req.message

\* a handler or the engine threw an error whose message is <a>&"' and the
\* 500 page holds &lt;a&gt;&amp;&quot;&#39;
C17_Witness ==
  /\ req.pc = "done"
  /\ req.status = 500
  /\ req.message = <<"<", "a", ">", "&", "\"", "'">>
  /\ Len(req.body) = 3
  /\ req.body[2].chars =
       <<"&", "l", "t", ";", "a", "&", "g", "t", ";", "&", "a", "m", "p", ";",
         "&", "q", "u", "o", "t", ";", "&", "#", "3", "9", ";">>


----------------------------------------------------------------------------
(* Registrations that differ in the priority option or that name no         *)
(* parameter: two dynamic siblings of which the later has the higher         *)
(* priority, a static sibling, and two patterns with an empty name.          *)

RegistrationRegs ==
  { Reg(<<"/", "a", "/", ":", "i">>, "H1", FALSE, FALSE, << >>, 0),
    Reg(<<"/", "a", "/", ":", "j">>, "H2", FALSE, FALSE, << >>, 1),
    Reg(<<"/", "a", "/", "s">>, "H1", FALSE, FALSE, <<"pass">>, 0),
    Reg(<<"/", "b", "/", ":">>, "H1", FALSE, FALSE, <<"pass">>, 1),
    Reg(<<"/", "b", "/", "*">>, "L1", TRUE, TRUE, << >>, 1) }

RegistrationPathnames == { <<"/", "a", "/", "4">>, <<"/", "a", "/", "s">> }

RegistrationNext ==
  \/ \E reg \in RegistrationRegs : AddRoute(reg)
  \/ \E pathname \in RegistrationPathnames : MatchCall(pathname)

SpecRegistration == Init /\ [][RegistrationNext]_vars

(* C21: matching does not depend on the priority option: every match(p)
   returns the node and the params that the router given the same
   registrations without priorities returns for p, or null when that router
   finds no route. *)
C21_PriorityDoesNotAffectMatch ==
  (last.op = "match")
  => LET w == Walk(unranked, last.path)
     IN /\ (last.ref = 0) <=> ~w.ok
        /\ (last.ref # 0)
           => /\ objs[last.ref].node = w.node
              /\ objs[last.ref].params = w.params


----------------------------------------------------------------------------
(* Properties of the order of the steps of a request *)

\* the first middleware of every node of the chain that has middleware has
\* been invoked in this request
MiddlewareRan(r) ==
  \A c \in 1..Len(Chain(r)) :
    (tree[Chain(r)[c]].middleware # << >>) => Invocations(c, 1) >= 1

\* the request was answered 200 without a call of the handler
AnsweredFromCache(r) ==
  /\ r.pc = "done"
  /\ r.matched # 0
  /\ r.status = 200
  /\ HandlerCalls(events) = 0

(* C22: when a request reaches the point where the Render Cache is
   consulted, and when it has been answered from the Render Cache, the
   middleware of every layout of the chain and of the route node have been
   run for it: a cache hit skips the handler and the rendering only. *)
C22_MiddlewareBeforeRenderCache ==
  (req.pc = "handler" \/ AnsweredFromCache(req)) => MiddlewareRan(req)

\* a request with a layout and a route node that both have middleware has
\* been answered from the Render Cache after both had run
C22_Witness ==
  /\ AnsweredFromCache(req)
  /\ Len(Chain(req)) = 2
  /\ Invocations(1, 1) = 1
  /\ Invocations(2, 1) = 1
  /\ req.body = HtmlShellBuffer(renderCache[CacheKey(req)])


(* C23: in every request the wrappers of the registered list [A, B]
   (outermost first) are applied to the handler output innermost first and
   outermost last, B and then A, and rendering leaves the registered list
   as it was. *)
C23_WrappersAppliedInReverse ==
  /\ layoutsGlobal \in WrapperLists
  /\ (req.pc \in {"render", "stream", "done"} /\ req.element.wraps # << >>)
     => req.element.wraps = <<"B", "A">>


(* C24: the Render Cache is written only when the stream of a cache miss has
   ended, for a key that had no entry, with all the chunks the engine
   produced in their order, so that the body of the miss is the shell around
   the buffer stored; and a request answered from the cache has the shell
   around that same buffer as its body. *)
C24_CachedBodyEqualsMissBody ==
  [][/\ (renderCache' # renderCache)
        => /\ ~RenderCacheHas(CacheKey(req))
           /\ DOMAIN renderCache' = DOMAIN renderCache \cup {CacheKey(req)}
           /\ \A key \in DOMAIN renderCache : renderCache'[key] = renderCache[key]
           /\ req'.pc = "done"
           /\ req'.status = 200
           /\ req'.bodyState = "closed"
           /\ req'.body =
                <<ShellStart>> \o renderCache'[CacheKey(req)] \o <<ShellEnd>>
           /\ \A k \in 1..Len(renderCache'[CacheKey(req)]) :
                renderCache'[CacheKey(req)][k] = Chunk(k)
     /\ (req.pc = "handler" /\ AnsweredFromCache(req'))
        => req'.body =
             <<ShellStart>> \o renderCache[CacheKey(req)] \o <<ShellEnd>>]_vars

\* a cache miss has just ended: its body is closed and the Render Cache
\* holds the two chunks that the body has between the parts of the shell
C24_Witness ==
  /\ req.pc = "done"
  /\ req.status = 200
  /\ req.bodyState = "closed"
  /\ HandlerCalls(events) = 1
  /\ RenderCacheHas(CacheKey(req))
  /\ renderCache[CacheKey(req)] = <<Chunk(1), Chunk(2)>>
  /\ req.body = <<ShellStart, Chunk(1), Chunk(2), ShellEnd>>


(* C25: while the rendered stream is read the body is the shell prefix
   followed by the chunks produced so far, in order; when the stream ends
   the body is that followed by the shell suffix, and is closed; when the
   stream fails the body is put in the error state with nothing added, and
   nothing is added to it afterwards. *)
C25_ShellAroundChunks ==
  [][/\ (req'.pc = "stream")
        => /\ req'.bodyState = "open"
           /\ req'.body = <<ShellStart>> \o req'.buf
           /\ \A k \in 1..Len(req'.buf) : req'.buf[k] = Chunk(k)
     /\ (req.pc = "stream" /\ req'.bodyState = "closed")
        => /\ req'.pc = "done"
           /\ req'.body = <<ShellStart>> \o req.buf \o <<ShellEnd>>
     /\ (req.pc = "stream" /\ req'.bodyState = "errored")
        => (req'.pc = "done" /\ req'.body = req.body)
     /\ (req.bodyState = "errored" /\ req'.bodyState = "errored")
        => req'.body = req.body]_vars

\* the rendered stream failed after its first chunk: the body is in the
\* error state and holds the prefix and that chunk, and no suffix
C25_Witness ==
  /\ req.pc = "done"
  /\ req.bodyState = "errored"
  /\ req.body = <<ShellStart, Chunk(1)>>
  /\ req.buf = <<Chunk(1)>>


----------------------------------------------------------------------------
(* Requests through a route whose first middleware writes into the params   *)
(* it is given.                                                             *)

\* the registrations offered: a layout at /u, and a page at /u/:i whose
\* first middleware writes params.i and whose second passes the request on
ParamsRegs ==
  { Reg(<<"/", "u">>, "L1", TRUE, FALSE, <<"pass">>, 0),
    Reg(<<"/", "u", "/", ":", "i">>, "H1", FALSE, FALSE, <<"mutate", "pass">>, 0) }

ParamsPathnames == { <<"/", "u", "/", "4">>, <<"/", "u", "/", "5">> }

ParamsNext ==
  \/ \E reg \in ParamsRegs : AddRoute(reg)
  \/ \E pathname \in ParamsPathnames : StartRender(pathname)
  \/ RequestNext

SpecParams == Init /\ [][ParamsNext]_vars

(* C26: every middleware of a request, whatever the middleware before it
   and the requests before it wrote into their params, is given the params
   that the pathname of the request binds. *)
C26_MiddlewareCannotChangeParams ==
  \A k \in 1..Len(events) :
    events[k].kind = "middleware"
      => events[k].params = Walk(tree, req.pathname).params


----------------------------------------------------------------------------
(* Properties of addRoute and match, continued *)

\* the pattern has a segment that is ":" or "*" alone
HasEmptyName(path) ==
  \E k \in 1..Len(SplitPath(path)) : SplitPath(path)[k] \in { <<":">>, <<"*">> }

(* C27: an addRoute whose pattern has a dynamic or catch-all segment with an
   empty name throws, and leaves the route tree (nodes, handlers,
   middleware, flags, priorities, order of children) and the Match Cache as
   they were. *)
C27_EmptyNameChangesNothing ==
  [][(adds' = adds + 1 /\ HasEmptyName(last'.path))
       => /\ last'.op = "addRoute"
          /\ last'.threw # ""
          /\ tree' = tree
          /\ routeCache' = routeCache]_vars

\* addRoute('/b/:') has thrown with routes registered and a pathname cached,
\* and there is no node for b
C27_Witness ==
  /\ last.op = "addRoute"
  /\ last.path = <<"/", "b", "/", ":">>
  /\ last.threw = "Dynamic segment must have a name"
  /\ routeCache # << >>
  /\ DOMAIN tree # {Root}
  /\ <<<<"b">>>> \notin DOMAIN tree


----------------------------------------------------------------------------
(* Layouts at several depths of one path, the root included.                *)

\* the registrations offered: layouts at /, /a and /a/b, and pages at /a
\* and /a/b
LayoutRegs ==
  { Reg(<<"/">>, "L1", TRUE, FALSE, << >>, 0),
    Reg(<<"/", "a">>, "L1", TRUE, FALSE, << >>, 0),
    Reg(<<"/", "a">>, "H1", FALSE, FALSE, << >>, 0),
    Reg(<<"/", "a", "/", "b">>, "H1", FALSE, FALSE, << >>, 0),
    Reg(<<"/", "a", "/", "b">>, "L1", TRUE, FALSE, << >>, 0) }

LayoutPathnames == { <<"/", "a">>, <<"/", "a", "/", "b">> }

LayoutNext ==
  \/ \E reg \in LayoutRegs : AddRoute(reg)
  \/ \E pathname \in LayoutPathnames : MatchCall(pathname)

SpecLayouts == Init /\ [][LayoutNext]_vars

\* the node is marked as a layout and has a layout handler
IsLayoutNode(n) ==
  n \in DOMAIN tree /\ tree[n].isLayout /\ tree[n].layoutHandler # NoHandler

(* C28: the layouts of the result that match returned are nodes on the
   chain from the root to the matched node, the matched node included;
   every node of that chain that is marked isLayout and has a layoutHandler
   is among them and no other node is; and they are listed from the root
   towards the matched node, each once. *)
C28_LayoutsAreTheLayoutAncestors ==
  (last.op = "match" /\ last.ref # 0)
    => LET n == objs[last.ref].node
           ls == objs[last.ref].layouts
       IN /\ \A j \in 1..Len(ls) :
               /\ Len(ls[j]) <= Len(n)
               /\ ls[j] = SubSeq(n, 1, Len(ls[j]))
               /\ IsLayoutNode(ls[j])
          /\ \A k \in 0..Len(n) :
               IsLayoutNode(SubSeq(n, 1, k))
                 => \E j \in 1..Len(ls) : ls[j] = SubSeq(n, 1, k)
          /\ \A i, j \in 1..Len(ls) : (i < j) => (Len(ls[i]) < Len(ls[j]))

\* match('/a/b') returned /a/b with the root and /a as its layouts, in that
\* order
C28_Witness ==
  /\ last.op = "match"
  /\ last.ref # 0
  /\ objs[last.ref].node = <<<<"a">>, <<"b">>>>
  /\ objs[last.ref].layouts = <<Root, <<<<"a">>>>>>


----------------------------------------------------------------------------
(* Properties of the Match Cache under the clock *)

(* C29: after a call match(p) made at time t, answered from the cache or by
   a walk, with a route or with null, the Match Cache holds an entry for p
   that expires at t + TTL. *)
C29_EveryMatchRefreshes ==
  [][\A pathname \in ClockPathnames :
       MatchStep(pathname)
         => /\ pathname \in DOMAIN routeCache'
            /\ routeCache'[pathname].expires = now + ROUTE_CACHE_TTL]_vars

\* this step is a tick of the interval timer
SweepStep == timerDue' # timerDue

(* C30: a tick of the interval timer at time t removes every entry of the
   Match Cache whose expiry time is before t and no other entry. *)
C30_SweepRemovesExpired ==
  [][SweepStep
       => /\ \A p \in DOMAIN routeCache :
               (now' > routeCache[p].expires) => p \notin DOMAIN routeCache'
          /\ \A p \in DOMAIN routeCache :
               ~(now' > routeCache[p].expires)
                 => (p \in DOMAIN routeCache' /\ routeCache'[p] = routeCache[p])]_vars


----------------------------------------------------------------------------
(* Properties of router.render, continued *)

(* C31: within one request no middleware of a node is invoked more than
   once: two invocations of the middleware at the same position of the
   list of the same node are the same invocation. *)
C31_MiddlewareAtMostOnce ==
  \A j, k \in 1..Len(events) :
    (/\ events[j].kind = "middleware"
     /\ events[k].kind = "middleware"
     /\ events[j].node = events[k].node
     /\ events[j].index = events[k].index)
      => j = k


----------------------------------------------------------------------------
(* Requests for a pathname whose route changes between them: a dynamic      *)
(* route, and a static route registered beside it.                          *)

StaleRegs ==
  { Reg(<<"/", "u", "/", ":", "i">>, "H1", FALSE, FALSE, << >>, 0),
    Reg(<<"/", "u", "/", "4">>, "H2", FALSE, FALSE, << >>, 0) }

StalePathnames == { <<"/", "u", "/", "4">> }

StaleNext ==
  \/ \E reg \in StaleRegs : AddRoute(reg)
  \/ \E pathname \in StalePathnames : StartRender(pathname)
  \/ RequestNext

SpecStale == Init /\ [][StaleNext]_vars

(* C32: every chunk in the body of a response with status 200 was produced
   by the route handler of the node that match selected for the request. *)
C32_BodyIsByTheMatchedHandler ==
  (req.pc = "done" /\ req.status = 200 /\ req.matched # 0)
    => \A k \in 1..Len(req.body) :
         req.body[k].kind = "chunk"
           => req.body[k].text = tree[objs[req.matched].node].routeHandler


----------------------------------------------------------------------------
(* Registrations that repeat a pattern with another priority.               *)

DuplicateRegs ==
  { Reg(<<"/", "a", "/", ":", "i">>, "H1", FALSE, FALSE, << >>, 0),
    Reg(<<"/", "a", "/", ":", "i">>, "H2", FALSE, FALSE, <<"pass">>, 1),
    Reg(<<"/", "a", "/", "s">>, "H1", FALSE, FALSE, << >>, 0),
    Reg(<<"/", "a">>, "L1", TRUE, FALSE, << >>, 0),
    Reg(<<"/", "a">>, "L1", TRUE, TRUE, << >>, 2) }

DuplicatePathnames == { <<"/", "a", "/", "4">> }

DuplicateNext ==
  \/ \E reg \in DuplicateRegs : AddRoute(reg)
  \/ \E pathname \in DuplicatePathnames : MatchCall(pathname)

SpecDuplicate == Init /\ [][DuplicateNext]_vars

\* what addRoute throws when the node already has the handler
DuplicateErrors ==
  { "Duplicate layout handler defined", "Duplicate route handler defined" }

(* C33: an addRoute that throws a duplicate-handler error leaves the route
   tree (nodes, handlers, middleware, flags, priorities, order of children)
   and the Match Cache as they were before the call. *)
C33_DuplicateChangesNothing ==
  [][(adds' = adds + 1 /\ last'.threw \in DuplicateErrors)
       => (tree' = tree /\ routeCache' = routeCache)]_vars


----------------------------------------------------------------------------
(* The second copy of renderRSC in render.ts (render.ts:232-334): it stores *)
(* a clone of the response it is about to return, has no time limits and   *)
(* wraps no layouts.  An entry of the Render Cache is here the body of the  *)
(* stored response and the state of its stream.                             *)

SecondCopyHandlerOutcomes == {"element", "throw"}
SecondCopyEngineOutcomes == {"stream", "throw"}

\* the catch block of the second copy; escapeHtml(undefined) throws, and
\* the catch block of router.render answers
Error500SecondCopy(r, msg) ==
  IF msg = NoMessage
  THEN InternalServerError([r EXCEPT !.message = msg])
  ELSE Respond([r EXCEPT !.message = msg], 500,
               <<Text("<!DOCTYPE html><html><body><h1>Server Error</h1><pre>"),
                 Pre(EscapeHtml(msg)),
                 Text("</pre></body></html>")>>)

\* the stored response as the stream of the response returned moves on:
\* clone() tees the body, and both branches get what the source gives
StoredResponse(r) == [body |-> r.body, bodyState |-> r.bodyState]

\* the end of the try block of router.render and the second copy of
\* renderRSC up to the element
InvokeHandlerSecondCopy(outcome) ==
  /\ req.pc = "handler"
  /\ LET node == objs[req.matched].node
         key == CacheKey(req)
     IN IF tree[node].routeHandler = NoHandler
        THEN /\ req' = InternalServerError(req)
             /\ UNCHANGED events
        ELSE IF RenderCacheHas(key)
        THEN /\ req' = [Respond(req, 200, renderCache[key].body) EXCEPT
                          !.bodyState = renderCache[key].bodyState]
             /\ UNCHANGED events
        ELSE /\ events' = Append(events,
                  Event("handler", req.chain, node, 0, tree[node].routeHandler,
                        TRUE, objs[req.matched].params))
             /\ IF outcome = "throw"
                THEN \E msg \in ThrownMessages :
                       req' = Error500SecondCopy(req, msg)
                ELSE req' = [req EXCEPT
                               !.pc = "render",
                               !.element = [valid |-> TRUE,
                                            handler |-> tree[node].routeHandler,
                                            wraps |-> << >>]]
  /\ UNCHANGED <<actions, sweeper, unranked, tree, routeCache, objs, now, last,
                 renderCache, unhandled, layoutsGlobal, adds>>

\* renderToReadableStream, htmlShell and cache.set(cacheKey, response.clone())
RenderToStreamSecondCopy(outcome) ==
  /\ req.pc = "render"
  /\ IF outcome = "stream"
     THEN LET r == [req EXCEPT !.pc = "stream", !.status = 200,
                               !.body = <<ShellStart>>, !.bodyState = "open",
                               !.buf = << >>]
          IN /\ req' = r
             /\ renderCache' = RenderCacheSet(CacheKey(req), StoredResponse(r))
     ELSE /\ \E msg \in ThrownMessages : req' = Error500SecondCopy(req, msg)
          /\ UNCHANGED renderCache
  /\ UNCHANGED <<actions, sweeper, unranked, tree, routeCache, objs, now, last, events,
                 unhandled, layoutsGlobal, adds>>

\* the engine produces a chunk: combinedStreamGenerator yields it
StreamChunkSecondCopy ==
  /\ req.pc = "stream"
  /\ Len(req.buf) < MaxChunks
  /\ LET r == [Enqueue(req, Chunk(Len(req.buf) + 1)) EXCEPT
                 !.buf = Append(@, Chunk(Len(req.buf) + 1))]
     IN /\ req' = r
        /\ renderCache' = RenderCacheSet(CacheKey(req), StoredResponse(r))
  /\ UNCHANGED <<actions, sweeper, unranked, tree, routeCache, objs, now, last, events,
                 unhandled, layoutsGlobal, adds>>

\* the engine closes the stream: the generator yields the suffix and ends
StreamEndSecondCopy ==
  /\ req.pc = "stream"
  /\ LET r == [Enqueue(req, ShellEnd) EXCEPT !.pc = "done",
                                             !.bodyState = "closed"]
     IN /\ req' = r
        /\ renderCache' = RenderCacheSet(CacheKey(req), StoredResponse(r))
  /\ UNCHANGED <<actions, sweeper, unranked, tree, routeCache, objs, now, last, events,
                 unhandled, layoutsGlobal, adds>>

\* the engine's stream fails: the generator throws and htmlShell puts the
\* stream in the error state
StreamFailSecondCopy ==
  /\ req.pc = "stream"
  /\ LET r == [req EXCEPT !.pc = "done", !.bodyState = "errored"]
     IN /\ req' = r
        /\ renderCache' = RenderCacheSet(CacheKey(req), StoredResponse(r))
  /\ UNCHANGED <<actions, sweeper, unranked, tree, routeCache, objs, now, last, events,
                 unhandled, layoutsGlobal, adds>>

SecondCopyNext ==
  \/ \E reg \in StaleRegs : AddRoute(reg)
  \/ \E pathname \in StalePathnames : StartRender(pathname)
  \/ RunNext
  \/ Resume
  \/ \E outcome \in SecondCopyHandlerOutcomes : InvokeHandlerSecondCopy(outcome)
  \/ \E outcome \in SecondCopyEngineOutcomes : RenderToStreamSecondCopy(outcome)
  \/ StreamChunkSecondCopy
  \/ StreamEndSecondCopy
  \/ StreamFailSecondCopy

SpecSecondCopy == Init /\ [][SecondCopyNext]_vars

\* the request is over, its handler was invoked, and it was answered with an
\* error page or with a body that failed
FailedAfterHandler(r) ==
  /\ r.pc = "done"
  /\ HandlerCalls(events) >= 1
  /\ (r.status = 500 \/ r.bodyState = "errored")

(* C34: when a request that invoked its handler has ended with an error
   response or with a body that failed mid-stream, the Render Cache holds
   nothing under the key of the request, so that the next request with the
   same method and pathname invokes the handler again. *)
C34_FailedRequestIsNotCached ==
  FailedAfterHandler(req) => ~RenderCacheHas(CacheKey(req))


----------------------------------------------------------------------------
(* action.ts: createBatchedAction.  The inputs are numbered in the order of *)
(* the execute calls; the time is that of the timers, in milliseconds.      *)

Min(a, b) == IF a < b THEN a ELSE b

\* the values of config.maxBatchSize and config.maxWaitMs
BatchSizes == {2, 3}
WaitTimes == {2}

\* how the promise of the batch handler settles
BatchOutcomes == {"resolve", "reject"}

\* processBatch up to its await: the head of the queue is spliced off and
\* handed to the handler
ProcessBatch(b, t) ==
  IF b.queue = << >> THEN b
  ELSE LET k == Min(b.maxBatchSize, Len(b.queue))
       IN [b EXCEPT !.queue = SubSeq(@, k + 1, Len(@)),
                    !.handed = Append(@, [inputs |-> SubSeq(b.queue, 1, k),
                                          at |-> t, state |-> "running"])]

\* scheduleBatch: the timer is cleared and set again, maxWaitMs from now
ScheduleBatch(b, t) ==
  [b EXCEPT !.batchTimeout = [armed |-> TRUE, due |-> t + b.maxWaitMs]]

\* a forEach that resolves every item with the first result of the batch
ResolveBatchWithFirstResult(b, k, outcome) ==
  LET batch == b.handed[k].inputs
  IN [b EXCEPT
        !.handed[k].state = IF outcome = "resolve" THEN "resolved" ELSE "rejected",
        !.settled = @ \o [i \in 1..Len(batch) |->
                            [id |-> batch[i], batch |-> k,
                             status |-> IF outcome = "resolve" THEN "success"
                                        ELSE "error",
                             index |-> IF outcome = "resolve" THEN 1 ELSE 0]]]

\* the two forEach loops of processBatch: every item of the batch is
\* resolved, with results[index] or with the error of the handler
ResolveBatch(b, k, outcome) ==
  LET batch == b.handed[k].inputs
  IN [b EXCEPT
        !.handed[k].state = IF outcome = "resolve" THEN "resolved" ELSE "rejected",
        !.settled = @ \o [i \in 1..Len(batch) |->
                            [id |-> batch[i], batch |-> k,
                             status |-> IF outcome = "resolve" THEN "success"
                                        ELSE "error",
                             index |-> IF outcome = "resolve" THEN i ELSE 0]]]

\* execute(input): the input is queued; the batch is processed at once when
\* the queue is full, and the timer is set again when it is not
Execute ==
  /\ Len(batched.enqueuedAt) < MaxInputs
  /\ LET b == [batched EXCEPT !.queue = Append(@, Len(batched.enqueuedAt) + 1),
                              !.enqueuedAt = Append(@, now)]
     IN batched' = IF Len(b.queue) >= b.maxBatchSize
                   THEN ProcessBatch([b EXCEPT !.batchTimeout.armed = FALSE], now)
                   ELSE ScheduleBatch(b, now)
  /\ UNCHANGED <<routing, now, streaming, limiter, action>>

\* the timer of scheduleBatch comes due and calls processBatch
BatchTimeoutFires ==
  /\ batched.batchTimeout.armed
  /\ now >= batched.batchTimeout.due
  /\ batched' = ProcessBatch([batched EXCEPT !.batchTimeout.armed = FALSE], now)
  /\ UNCHANGED <<routing, now, streaming, limiter, action>>

\* the promise of the handler settles for the k-th batch: processBatch
\* resolves its items and goes on with what the queue holds
BatchSettles(k, outcome) ==
  /\ k \in 1..Len(batched.handed)
  /\ batched.handed[k].state = "running"
  /\ batched' = ProcessBatch(ResolveBatch(batched, k, outcome), now)
  /\ UNCHANGED <<routing, now, streaming, limiter, action>>

\* a millisecond passes; a timer that is due fires before the next one does
BatchTick ==
  /\ now < MaxBatchTime
  /\ ~(batched.batchTimeout.armed /\ now >= batched.batchTimeout.due)
  /\ now' = now + 1
  /\ UNCHANGED <<routing, actions>>

BatchedNext ==
  \/ Execute
  \/ BatchTimeoutFires
  \/ \E k \in 1..MaxInputs, outcome \in BatchOutcomes : BatchSettles(k, outcome)
  \/ BatchTick

BatchedStart ==
  /\ RouterInit
  /\ batched \in { BatchedInit(m, w) : m \in BatchSizes, w \in WaitTimes }
  /\ streaming = StreamingInit
  /\ limiter = LimiterInit(1, 1)
  /\ action = ActionInit(NoRetry, 1)

SpecBatched == BatchedStart /\ [][BatchedNext]_vars

RECURSIVE Flatten(_)
\* the inputs of the batches, one batch after the other
Flatten(batches) ==
  IF batches = << >> THEN << >>
  ELSE Head(batches).inputs \o Flatten(Tail(batches))

\* the inputs numbered from 1 in the order of the execute calls
InOrder(n) == [i \in 1..n |-> i]

(* C35: the batches handed to the handler, one after the other and followed
   by the queue, are the inputs in the order of the execute calls, each
   once; no batch holds more than maxBatchSize inputs or none; an input is
   resolved only when its batch has settled, once, with the result at its
   own index of its batch or with status error when the handler threw, and
   then every input of the batch is resolved; and inputs wait in the queue
   only while the timer is set or a batch is with the handler. *)
C35_EveryInputInOneBatch ==
  /\ Flatten(batched.handed) \o batched.queue = InOrder(Len(batched.enqueuedAt))
  /\ \A k \in 1..Len(batched.handed) :
       /\ Len(batched.handed[k].inputs) \in 1..batched.maxBatchSize
       /\ \A i \in 1..Len(batched.handed[k].inputs) :
            LET id == batched.handed[k].inputs[i]
                calls == {j \in 1..Len(batched.settled) : batched.settled[j].id = id}
            IN IF batched.handed[k].state = "running" THEN calls = {}
               ELSE /\ Cardinality(calls) = 1
                    /\ \A j \in calls :
                         /\ batched.settled[j].batch = k
                         /\ IF batched.handed[k].state = "resolved"
                            THEN /\ batched.settled[j].status = "success"
                                 /\ batched.settled[j].index = i
                            ELSE batched.settled[j].status = "error"
  /\ \A j \in 1..Len(batched.settled) :
       \E k \in 1..Len(batched.handed) :
         \E i \in 1..Len(batched.handed[k].inputs) :
           batched.handed[k].inputs[i] = batched.settled[j].id
  /\ (batched.queue # << >>)
       => \/ batched.batchTimeout.armed
          \/ \E k \in 1..Len(batched.handed) : batched.handed[k].state = "running"

\* three inputs in two batches, the second made of what the queue held when
\* the first settled, and every input resolved with its own result
C35_Witness ==
  /\ batched.maxBatchSize = 2
  /\ Len(batched.handed) = 2
  /\ batched.handed[1].inputs = <<1, 2>>
  /\ batched.handed[2].inputs = <<3>>
  /\ batched.handed[1].state = "resolved"
  /\ batched.handed[2].state = "resolved"
  /\ Len(batched.settled) = 3
  /\ batched.batchTimeout.armed

(* C36: an input is handed to the handler no later than maxWaitMs after
   its execute call: no input in the queue is older than that, and no
   batch was handed over later than that after any of its inputs. *)
C36_HandedWithinMaxWait ==
  /\ \A i \in 1..Len(batched.queue) :
       now - batched.enqueuedAt[batched.queue[i]] <= batched.maxWaitMs
  /\ \A k \in 1..Len(batched.handed) :
       \A i \in 1..Len(batched.handed[k].inputs) :
         batched.handed[k].at - batched.enqueuedAt[batched.handed[k].inputs[i]]
           <= batched.maxWaitMs


----------------------------------------------------------------------------
(* action.ts: createStreamingAction.  The chunks are numbered in the order  *)
(* in which the handler emits them; the caller of stream() asks for the     *)
(* next chunk as soon as it has been given one.                             *)

\* how the promise of the handler settles
StreamOutcomes == {"fulfilled", "rejected"}

RECURSIVE RunJobs(_, _)
\* the promise jobs run in the order in which they were queued, up to an
\* empty queue: what the promise of Promise.race is settled with.  The job
\* "then" is the reaction of handlerPromise.then(() => true), which settles
\* the promise that then() returned and so queues the reaction of the race
\* to it; the job FALSE is the reaction of the race to Promise.resolve(false).
RunJobs(jobs, race) ==
  IF jobs = << >> THEN race
  ELSE IF Head(jobs) = "then:fulfilled"
  THEN RunJobs(Append(Tail(jobs), "true"), race)
  ELSE IF Head(jobs) = "then:rejected"
  THEN RunJobs(Append(Tail(jobs), "reject"), race)
  ELSE RunJobs(Tail(jobs), IF race = "pending" THEN Head(jobs) ELSE race)

\* await Promise.race([handlerPromise.then(() => true), Promise.resolve(false)])
\* then() queues its reaction at once when handlerPromise is settled and
\* keeps it when it is pending; the race then queues its reaction to the
\* promise that is resolved with false
Completed(handlerPromise) ==
  RunJobs((IF handlerPromise = "pending" THEN << >>
           ELSE <<"then:" \o handlerPromise>>) \o <<"false">>, "pending")

\* the handler calls emit(chunk)
Emit ==
  /\ streaming.handlerPromise = "pending"
  /\ streaming.emitted < MaxEmits
  /\ streaming' = [streaming EXCEPT !.emitted = @ + 1,
                                    !.chunks = Append(@, streaming.emitted + 1)]
  /\ UNCHANGED <<routing, now, batched, limiter, action>>

\* the promise that the handler returned settles
StreamHandlerSettles(outcome) ==
  /\ streaming.handlerPromise = "pending"
  /\ streaming' = [streaming EXCEPT !.handlerPromise = outcome]
  /\ UNCHANGED <<routing, now, batched, limiter, action>>

\* the test of the while loop, which handlerPromise, an object, makes true,
\* and the if of its body: the first chunk is yielded, or the timer of 10 ms
\* is set
StreamLoop ==
  /\ streaming.pc = "loop"
  /\ streaming' = IF streaming.chunks # << >>
                  THEN [streaming EXCEPT !.yielded = Append(@, Head(streaming.chunks)),
                                         !.chunks = Tail(@), !.pc = "race"]
                  ELSE [streaming EXCEPT !.pc = "sleep"]
  /\ UNCHANGED <<routing, now, batched, limiter, action>>

\* the timer of 10 ms comes due
StreamWake ==
  /\ streaming.pc = "sleep"
  /\ streaming' = [streaming EXCEPT !.pc = "race"]
  /\ UNCHANGED <<routing, now, batched, limiter, action>>

\* the race and the break that depends on it
StreamRace ==
  /\ streaming.pc = "race"
  /\ LET completed == Completed(streaming.handlerPromise)
     IN streaming' =
          IF completed = "reject" THEN [streaming EXCEPT !.pc = "thrown"]
          ELSE IF completed = "true" /\ streaming.chunks = << >>
          THEN [streaming EXCEPT !.pc = "done"]
          ELSE [streaming EXCEPT !.pc = "loop"]
  /\ UNCHANGED <<routing, now, batched, limiter, action>>

StreamingNext ==
  \/ Emit
  \/ \E outcome \in StreamOutcomes : StreamHandlerSettles(outcome)
  \/ StreamLoop
  \/ StreamWake
  \/ StreamRace

SpecStreaming == Init /\ [][StreamingNext]_vars

(* C37: the chunks yielded, followed by those not yet yielded, are the
   chunks emitted, in the order of emission and each once; and when the
   generator looks whether the handler has completed, with the promise of
   the handler fulfilled and no chunk left to yield, it returns. *)
C37_YieldsAllThenTerminates ==
  [][/\ streaming'.yielded \o streaming'.chunks = InOrder(streaming'.emitted)
     /\ (/\ streaming.pc = "race"
         /\ streaming.handlerPromise = "fulfilled"
         /\ streaming.chunks = << >>)
        => streaming'.pc = "done"]_vars


----------------------------------------------------------------------------
(* action.ts: RateLimiter.  Every call of check is made with the same       *)
(* maxRequests and windowMs; reset is not called.                           *)

\* the keys given to check, and the values of maxRequests and windowMs
LimiterKeys == {"k1", "k2"}
LimiterMaxRequests == {1, 2}
LimiterWindows == {2}

\* this.requests.get(key) || []
Timestamps(l, key) == IF key \in DOMAIN l.requests THEN l.requests[key] ELSE << >>

\* timestamps.filter((ts) => now - ts < windowMs)
ValidTimestamps(l, key, t) ==
  LET Valid(ts) == t - ts < l.windowMs
  IN SelectSeq(Timestamps(l, key), Valid)

\* a check that records the call before it looks at the limit
CheckCountingRejected(key) ==
  /\ Len(limiter.calls) < MaxChecks
  /\ LET valid == ValidTimestamps(limiter, key, now)
         allowed == ~(Len(valid) >= limiter.maxRequests)
     IN limiter' = [limiter EXCEPT
                      !.requests = (key :> Append(valid, now)) @@ @,
                      !.calls = Append(@, [key |-> key, at |-> now,
                                           allowed |-> allowed])]
  /\ UNCHANGED <<routing, now, batched, streaming, action>>

\* rateLimiter.check(key, maxRequests, windowMs)
Check(key) ==
  /\ Len(limiter.calls) < MaxChecks
  /\ LET valid == ValidTimestamps(limiter, key, now)
         allowed == ~(Len(valid) >= limiter.maxRequests)
     IN limiter' = [limiter EXCEPT
                      !.requests = IF allowed
                                   THEN (key :> Append(valid, now)) @@ @
                                   ELSE @,
                      !.calls = Append(@, [key |-> key, at |-> now,
                                           allowed |-> allowed])]
  /\ UNCHANGED <<routing, now, batched, streaming, action>>

\* a millisecond passes on Date.now()
LimiterTick ==
  /\ now < MaxLimiterTime
  /\ now' = now + 1
  /\ UNCHANGED <<routing, actions>>

LimiterNext ==
  \/ \E key \in LimiterKeys : Check(key)
  \/ LimiterTick

LimiterStart ==
  /\ RouterInit
  /\ batched = BatchedInit(1, 1)
  /\ streaming = StreamingInit
  /\ limiter \in { LimiterInit(m, w) : m \in LimiterMaxRequests, w \in LimiterWindows }
  /\ action = ActionInit(NoRetry, 1)

SpecLimiter == LimiterStart /\ [][LimiterNext]_vars

\* the calls of check(key) that returned true at a time from a to b
AllowedWithin(l, key, a, b) ==
  {j \in 1..Len(l.calls) : /\ l.calls[j].key = key
                           /\ l.calls[j].allowed
                           /\ a <= l.calls[j].at
                           /\ l.calls[j].at <= b}

(* C38: for every key and every interval of time shorter than windowMs, at
   most maxRequests calls of check for the key returned true in the
   interval; a call that returned false left the limiter as it was; a call
   left the timestamps of every other key as they were; and whether a call
   returned true depends on the earlier calls for its own key alone: it
   did when fewer than maxRequests of them returned true less than windowMs
   before it. *)
C38_AtMostMaxPerWindow ==
  [][LET l == limiter'
         n == Len(l.calls)
     IN /\ \A key \in LimiterKeys : \A a, b \in 0..now' :
             (a <= b /\ b - a < l.windowMs)
               => Cardinality(AllowedWithin(l, key, a, b)) <= l.maxRequests
        /\ (n = Len(limiter.calls) + 1)
             => /\ ~l.calls[n].allowed => l.requests = limiter.requests
                /\ \A key \in LimiterKeys \ {l.calls[n].key} :
                     Timestamps(l, key) = Timestamps(limiter, key)
                /\ l.calls[n].allowed
                     <=> Cardinality({j \in AllowedWithin(limiter, l.calls[n].key, 0, now) :
                                        now - limiter.calls[j].at < l.windowMs})
                           < l.maxRequests]_vars

\* with maxRequests 1: a call for k1 was let through, a second one was
\* turned down while one for k2 was let through, and a third call for k1,
\* a whole window after the first, was let through
C38_Witness ==
  /\ limiter.maxRequests = 1
  /\ Len(limiter.calls) = 4
  /\ limiter.calls[1] = [key |-> "k1", at |-> 0, allowed |-> TRUE]
  /\ limiter.calls[2] = [key |-> "k1", at |-> 1, allowed |-> FALSE]
  /\ limiter.calls[3] = [key |-> "k2", at |-> 1, allowed |-> TRUE]
  /\ limiter.calls[4] = [key |-> "k1", at |-> 2, allowed |-> TRUE]


----------------------------------------------------------------------------
(* action.ts: createAction and executeWithRetry.  One call of execute, with *)
(* an input that passes validation and is not in the cache, an action that  *)
(* has caching enabled and no rate limit.  The clock moves in steps of      *)
(* ActionStep milliseconds; a timer fires at the step at which it is due.   *)

ActionStep == 50

\* the values of config.retry and config.timeout
RetryConfigs == { NoRetry, Retry(0, 1), Retry(1, 1), Retry(2, 1) }
Timeouts == { 150, 30000 }

\* how a call of the handler settles
ActionOutcomes == {"resolve", "reject"}

RECURSIVE Pow(_, _)
Pow(b, e) == IF e = 0 THEN 1 ELSE b * Pow(b, e - 1)

\* Math.pow(config.backoff, attempt) * 100
Delay(retry, attempt) == Pow(retry.backoff, attempt) * 100

\* fn() of executeWithRetry: the handler is called
InvokeFn(a) == [a EXCEPT !.invocations = @ + 1, !.running = @ + 1, !.pc = "fn"]

\* what follows await Promise.race([executePromise, timeoutPromise]) in
\* execute when executePromise settles: nothing when the race is decided,
\* else the cache is written and the value returned, or the error returned
AfterRace(a) ==
  IF a.result.status # "none" THEN a
  ELSE IF a.executePromise.state = "fulfilled"
  THEN [a EXCEPT !.cacheSets = @ + 1,
                 !.result = [status |-> "success", error |-> "",
                             of |-> a.executePromise.of]]
  ELSE [a EXCEPT !.result = [status |-> "error", error |-> "handler",
                             of |-> a.executePromise.of]]

\* execute(input) up to its await of the race: the handler is called through
\* executeWithRetry and the timer of the timeout is set
ActionExecute ==
  /\ action.pc = "idle"
  /\ action' = InvokeFn([action EXCEPT
                           !.timeoutDue = now + action.timeout,
                           !.executePromise = [state |-> "pending", of |-> 0]])
  /\ UNCHANGED <<routing, now, batched, streaming, limiter>>

\* a retry that compares the attempts with > in place of >=
ActionHandlerSettlesOnceMore(outcome) ==
  /\ action.pc = "fn"
  /\ LET a == [action EXCEPT !.running = @ - 1]
         k == action.invocations
     IN action' =
          IF outcome = "resolve"
          THEN AfterRace([a EXCEPT !.pc = "returned",
                                   !.executePromise = [state |-> "fulfilled", of |-> k]])
          ELSE IF ~a.retry.enabled \/ a.attempt > a.retry.attempts
          THEN AfterRace([a EXCEPT !.pc = "returned",
                                   !.executePromise = [state |-> "rejected", of |-> k]])
          ELSE [a EXCEPT !.pc = "delay",
                         !.retryDue = now + Delay(a.retry, a.attempt)]
  /\ UNCHANGED <<routing, now, batched, streaming, limiter>>

\* the promise of the handler settles: executeWithRetry returns its value,
\* throws its error, or sets the timer of the retry
ActionHandlerSettles(outcome) ==
  /\ action.pc = "fn"
  /\ LET a == [action EXCEPT !.running = @ - 1]
         k == action.invocations
     IN action' =
          IF outcome = "resolve"
          THEN AfterRace([a EXCEPT !.pc = "returned",
                                   !.executePromise = [state |-> "fulfilled", of |-> k]])
          ELSE IF ~a.retry.enabled \/ a.attempt >= a.retry.attempts
          THEN AfterRace([a EXCEPT !.pc = "returned",
                                   !.executePromise = [state |-> "rejected", of |-> k]])
          ELSE [a EXCEPT !.pc = "delay",
                         !.retryDue = now + Delay(a.retry, a.attempt)]
  /\ UNCHANGED <<routing, now, batched, streaming, limiter>>

\* the timer of the retry comes due: executeWithRetry(fn, config, attempt + 1)
RetryFires ==
  /\ action.pc = "delay"
  /\ now >= action.retryDue
  /\ action' = InvokeFn([action EXCEPT !.attempt = @ + 1])
  /\ UNCHANGED <<routing, now, batched, streaming, limiter>>

\* the timer of the timeout comes due and rejects timeoutPromise: the race,
\* when it is not decided, is lost and execute returns the error
ActionTimeoutFires ==
  /\ action.pc # "idle"
  /\ action.timeoutDue # 0
  /\ now >= action.timeoutDue
  /\ action' = [action EXCEPT
                  !.timeoutDue = 0,
                  !.result = IF @.status = "none"
                             THEN [status |-> "error", error |-> "Action timeout",
                                   of |-> 0]
                             ELSE @]
  /\ UNCHANGED <<routing, now, batched, streaming, limiter>>

\* time passes, when no timer is due
ActionTick ==
  /\ now < MaxActionTicks * ActionStep
  /\ ~(action.pc = "delay" /\ now >= action.retryDue)
  /\ ~(action.pc # "idle" /\ action.timeoutDue # 0 /\ now >= action.timeoutDue)
  /\ now' = now + ActionStep
  /\ UNCHANGED <<routing, actions>>

ActionNext ==
  \/ ActionExecute
  \/ \E outcome \in ActionOutcomes : ActionHandlerSettles(outcome)
  \/ RetryFires
  \/ ActionTimeoutFires
  \/ ActionTick

ActionStart ==
  /\ RouterInit
  /\ batched = BatchedInit(1, 1)
  /\ streaming = StreamingInit
  /\ limiter = LimiterInit(1, 1)
  /\ action \in { ActionInit(r, t) : r \in RetryConfigs, t \in Timeouts }

SpecAction == ActionStart /\ [][ActionNext]_vars

\* the calls of the function that the configuration allows
MaxInvocations(a) == IF a.retry.enabled THEN a.retry.attempts + 1 ELSE 1

(* C39: executeWithRetry calls the function at most attempts + 1 times, and
   once when there is no retry config; no call is made while another has
   not settled; when its promise is fulfilled it is with the value of the
   last call made, and when it is rejected it is with the error of the last
   call made, after all the calls allowed; and once its promise is settled
   the function is not called again. *)
C39_RetryBounded ==
  [][LET a == action'
     IN /\ a.invocations <= MaxInvocations(a)
        /\ a.running <= 1
        /\ (a.executePromise.state \in {"fulfilled", "rejected"})
             => /\ a.executePromise.of = a.invocations
                /\ a.running = 0
        /\ (a.executePromise.state = "rejected")
             => a.invocations = MaxInvocations(a)
        /\ (action.executePromise.state \in {"fulfilled", "rejected"})
             => a.invocations = action.invocations]_vars

\* with two retries allowed: the first two calls failed, the third one
\* succeeded, and executeWithRetry returned its value
C39_Witness ==
  /\ action.retry = Retry(2, 1)
  /\ action.invocations = 3
  /\ action.executePromise = [state |-> "fulfilled", of |-> 3]
  /\ action.result.status = "success"
  /\ action.result.of = 3

(* C40: once execute has returned the error 'Action timeout', the handler
   is not called again and nothing is written to the cache. *)
C40_NothingAfterTimeout ==
  [][(action.result.error = "Action timeout")
       => /\ action'.invocations = action.invocations
          /\ action'.cacheSets = action.cacheSets]_vars

====
